---- MODULE Spec2Model ----
(***************************************************************************)
(* Verification model of hayabusa-cloud/sox: the bounded ring queue        *)
(* (poller.go), the bounded stack (fixed_stack.go) and the message framer. *)
(* Every atomic load, compare-and-swap, store and plain memory access of   *)
(* the concurrent code is one step of the thread that executes it.         *)
(*                                                                         *)
(* A 32-bit status word (ring-queue tail, stack top) is modelled as a      *)
(* record [w |-> bit 31, c |-> bit 30, v |-> low 30 bits].                 *)
(***************************************************************************)
EXTENDS Integers, Sequences, FiniteSets, TLC

\* ------------------------------------------------------------------ bounds
QProducers == 2
QConsumers == 2
QItems == 2
QUserCap == 1
SPushers == 2
SPoppers == 2
SItems == 1
SeriesItems == 3
SUserCap == 2
MThreads == 2
MsgCount == 2
MaxReads == 2
MaxShort == 1
MaxShortLen == 1

MaxShortWrites == 1

MaxAttach == 4

URingOrder == 1

UThreads == 2

MaxSubmits == 3

MaxCompletions == 3

MaxRegister == 8

MaxClosedCalls == 5

MaxYieldCalls == 1030
MsgLens == {1, 253, 254, 65535, 65536}
BufLens == {65536}

\* ------------------------------------------------------- program constants
ringQueueTailValueMask == 1073741823
messageHeaderLength == 1
messagePayloadMaxLength8Bits == 253
messagePayloadMaxLength16Bits == 65535
messageStatusRead == 4
messageStatusWrite == 2
messageStatusClosed == 8192

VARIABLES
    qcap,       \* rq.capacity (index mask)
    qnonblock,  \* RingQueueOptions.Nonblocking
    ring,       \* rq.ring, indexed 0..capacity
    head,       \* rq.head
    tail,       \* rq.tail (status word)
    ppc,        \* producer thread position
    ptail,      \* producer local: tail
    pseq,       \* number of items a producer has produced successfully
    sawClosedPipe, \* the last Produce of a producer returned io.ErrClosedPipe
    pafter,     \* the current/last Produce began after a Close had returned
    cpc,        \* consumer thread position
    chead,      \* consumer local: head
    citem,      \* consumer local: item
    recv,       \* items each consumer has received, in order
    sawEOF,     \* the last Consume of a consumer returned io.EOF
    closeDone   \* some Close call has returned

qvars == <<qcap, qnonblock, ring, head, tail, ppc, ptail, pseq, sawClosedPipe, pafter,
           cpc, chead, citem, recv, sawEOF, closeDone>>


VARIABLES
    kcap,       \* FixedStackOptions.Capacity (after rounding)
    knonblock,  \* FixedStackOptions.Nonblocking
    kstack,     \* s.stack, indexed 0..Capacity-1
    top,        \* s.top (status word)
    upc,        \* pusher thread position
    utop,       \* pusher local: top
    upushed,    \* number of items a pusher has pushed successfully
    uafter,     \* the current/last Push began after a Close had returned
    ulast,      \* "closed" when the last Push returned io.ErrClosedPipe, else "none"
    opc,        \* popper thread position
    otop,       \* popper local: top (the word loaded, or returned by Add)
    oitem,      \* popper local: item
    oexp,       \* top item of the linearized stack when the popper claimed its slot
    popped,     \* pairs <<item returned, item expected>> of the Pops of the Concurrent=false stack
    oafter,     \* the current/last Pop began after a Close had returned
    olast,      \* last empty check of a Pop: "eof" (empty, closed), "unavailable" (empty, open: returned or spinning), else "none"
    kCloseDone, \* some Close call has returned
    lin         \* the stack as linearized at the updates of top (bottom first)

kvars == <<kcap, knonblock, kstack, top, upc, utop, upushed, uafter, ulast,
           opc, otop, oitem, oexp, popped, oafter, olast, kCloseDone, lin>>

VARIABLES
    mrdSet,     \* msg.rd != nil
    mwrSet,     \* msg.wr != nil
    mnonblock,  \* msg.nonblock
    mstream,    \* the protocol does not preserve boundaries (readStream/writeStream)
    mstatus,    \* msg.status
    mdone,      \* msg.done
    tpc,        \* position of each goroutine calling read, write or close
    told,       \* goroutine local: status / oldStatus
    tlast       \* what the last call of a goroutine returned

mvars == <<mrdSet, mwrSet, mnonblock, mstream, mstatus, mdone, tpc, told, tlast>>

VARIABLES
    fbo,        \* byte order of the paired writer and reader (wbo = rbo)
    fnonblock,  \* msg.nonblock of the writer and the reader
    rlimit,     \* reader msg.readLimit
    wbudget,    \* number of short writes the transport may make
    wire,       \* bytes written to the transport and not yet read
    weof,       \* the writing end of the transport is closed
    wlog,       \* every byte the transport has accepted, in order
    wheader,    \* writer msg.header, indexed 0..7
    wlength,    \* writer msg.length
    woffset,    \* writer msg.offset
    wcount,     \* writer msg.count
    wpc,        \* position of the write call
    wsent,      \* payload lengths passed to write, in order
    wp,         \* the part of the current payload the caller still has to write
    wpend,      \* the caller has a frame that write has not completed
    wn,         \* n of the current write call
    wshort,     \* number of transport writes that took less than was given
    rheader,    \* reader msg.header, indexed 0..7
    rlength,    \* reader msg.length
    roffset,    \* reader msg.offset
    rcount,     \* reader msg.count
    rpc,        \* position of the read call
    rplen,      \* len(p) of the current read call
    rp,         \* contents of p written by read calls on this buffer
    rn,         \* n of the current read call
    rgot,       \* results of the read calls, in order
    rshort,     \* number of transport reads that returned less than was available
    reofAt      \* msg.offset at the last end-of-stream of the transport (-1: none)

fopts == <<fbo, fnonblock, rlimit, wbudget>>
wside == <<wlog, wheader, wlength, woffset, wcount, wpc, wsent, wp, wpend, wn, wshort>>
rside == <<rheader, rlength, roffset, rcount, rpc, rplen, rp, rn, rgot, rshort, reofAt>>
fvars == <<fopts, wire, weof, wside, rside>>

VARIABLES
    chain,      \* the context: its wrappers, innermost first
    attached    \* the attachments made to the context, in order

cvars == <<chain, attached>>

VARIABLES
    sqLock,     \* ur.sqLock
    sqHead,     \* *ur.sq.kHead
    sqTail,     \* *ur.sq.kTail
    sqes,       \* ur.sq.sqes: slot -> the operation written to it (0: none)
    spc,        \* position of each submitting thread in submit
    sqh, sqt,     \* the h and t of each submitting thread
    sop,        \* the operation each submitting thread is submitting
    snext,      \* number of submit calls made
    sres,       \* results of the submit calls of each thread
    kseen,      \* the operations the kernel has taken from the SQ, in order
    cqHead,     \* *ur.cq.kHead
    cqTail,     \* *ur.cq.kTail
    cqes,       \* ur.cq.cqes: slot -> the completion in it (0: none)
    kposted,    \* number of completions the kernel has posted
    wtpc,       \* position of each waiting thread in wait
    cqh, cqt,     \* the h and t of each waiting thread
    wgot,       \* per waiting thread: the entries wait returned, each with
                \* its slot and the completion in the slot when it was claimed
    wread,      \* per waiting thread: what the caller read from each entry
    breq,       \* registerBuffers: the arguments n and size
    bret        \* registerBuffers: the answer ("" before the call)

sqvars == <<sqLock, sqHead, sqTail, sqes, spc, sqh, sqt, sop, snext, sres, kseen>>
cqvars == <<cqHead, cqTail, cqes, kposted, wtpc, cqh, cqt, wgot, wread>>
bvars == <<breq, bret>>
uvars == <<sqvars, cqvars, bvars>>

VARIABLES
    swi,        \* sw.i, as the two's-complement reading of its 32 bits
    swlevel,    \* sw.level
    swlimit,    \* sw.limit
    swtotal,    \* sw.total
    swwraps,    \* number of times sw.i has wrapped around since creation or Reset
    swsteps,    \* calls of Once and OnceWithLevel made by the model
    swsince,    \* calls since the last yielding call
    swgap,      \* calls from the yielding call before the last to the last (0: none)
    swprevgap,  \* the value of swgap before the last yielding call
    swyielded,  \* the last call yielded
    swfixed     \* every call since creation or Reset was made at sw.level

svars == <<swi, swlevel, swlimit, swtotal, swwraps, swsteps, swsince, swgap,
           swprevgap, swyielded, swfixed>>

VARIABLES
    apc,        \* AlignedMemBlocks: "off", "call", "loop", "done" or "panic"
    an,         \* the argument n
    aptr,       \* ptr, the address of p[0]
    ai,         \* the loop variable i
    ablocks     \* blocks[0..i-1]: the address and the length of each block

avars == <<apc, an, aptr, ai, ablocks>>

VARIABLE
    qkind       \* the ring queue NewRingQueue built: "SPSC", "MPSC", "SPMC" or "MPMC"

notqvars == <<kvars, mvars, fvars, cvars, uvars, svars, avars, qkind>>
notkvars == <<qvars, mvars, fvars, cvars, uvars, svars, avars, qkind>>
notmvars == <<qvars, kvars, fvars, cvars, uvars, svars, avars, qkind>>
notfvars == <<qvars, kvars, mvars, cvars, uvars, svars, avars, qkind>>
notcvars == <<qvars, kvars, mvars, fvars, uvars, svars, avars, qkind>>
notuvars == <<qvars, kvars, mvars, fvars, cvars, svars, avars, qkind>>
notsvars == <<qvars, kvars, mvars, fvars, cvars, uvars, avars, qkind>>
vars == <<qvars, kvars, mvars, fvars, cvars, uvars, svars, avars, qkind>>
notavars == <<qvars, kvars, mvars, fvars, cvars, uvars, svars, qkind>>

\* ----------------------------------------------------------------- helpers
RECURSIVE BitOr(_, _)
BitOr(a, b) ==
    IF a = 0 THEN b
    ELSE IF b = 0 THEN a
    ELSE 2 * BitOr(a \div 2, b \div 2) + (IF a % 2 = 1 \/ b % 2 = 1 THEN 1 ELSE 0)

\* x & m for a mask m of the form 2^n - 1
AndMask(x, m) == x % (m + 1)

Word(w, c, v) == [w |-> w, c |-> c, v |-> v]
ZeroWord == Word(FALSE, FALSE, 0)

\* NewRingQueue: capacity rounded up by successive right-shift OR
RoundCapacity(c) ==
    LET c1 == BitOr(c, c \div 2)
        c2 == BitOr(c1, c1 \div 4)
        c3 == BitOr(c2, c2 \div 16)
        c4 == BitOr(c3, c3 \div 256)
        c5 == BitOr(c4, c4 \div 65536)
    IN c5

Producers == 1..QProducers
Consumers == 1..QConsumers
ZeroItem == <<0, 0>>
NextItem(p) == <<p, pseq[p] + 1>>

\* projection of a sequence of items to the sequence numbers of producer p
RECURSIVE Proj(_, _)
Proj(s, p) ==
    IF s = <<>> THEN <<>>
    ELSE IF Head(s)[1] = p THEN <<Head(s)[2]>> \o Proj(Tail(s), p)
    ELSE Proj(Tail(s), p)

Iota(n) == [i \in 1..n |-> i]

IsPrefix(s, t) == Len(s) <= Len(t) /\ SubSeq(t, 1, Len(s)) = s

\* ------------------------------------------------------- ring queue: Init
InitQueue(nc) ==
    /\ qcap = RoundCapacity(QUserCap)
    /\ qnonblock \in BOOLEAN
    /\ ring = [i \in 0..RoundCapacity(QUserCap) |-> ZeroItem]
    /\ head = 0
    /\ tail = ZeroWord
    /\ ppc = [p \in Producers |-> "idle"]
    /\ ptail = [p \in Producers |-> ZeroWord]
    /\ pseq = [p \in Producers |-> 0]
    /\ sawClosedPipe = [p \in Producers |-> FALSE]
    /\ pafter = [p \in Producers |-> FALSE]
    /\ cpc = [c \in Consumers |-> IF c <= nc THEN "idle" ELSE "off"]
    /\ chead = [c \in Consumers |-> 0]
    /\ citem = [c \in Consumers |-> ZeroItem]
    /\ recv = [c \in Consumers |-> <<>>]
    /\ sawEOF = [c \in Consumers |-> FALSE]
    /\ closeDone = FALSE

\* a Produce call returns without producing
ProduceFail(p, r) ==
    /\ ppc' = [ppc EXCEPT ![p] = "idle"]
    /\ sawClosedPipe' = [sawClosedPipe EXCEPT ![p] = (r = "closed")]
    /\ ptail' = [ptail EXCEPT ![p] = ZeroWord]

\* a Consume call returns without an item
ConsumeFail(c, r) ==
    /\ cpc' = [cpc EXCEPT ![c] = "idle"]
    /\ sawEOF' = [sawEOF EXCEPT ![c] = (r = "eof")]
    /\ chead' = [chead EXCEPT ![c] = 0]
    /\ citem' = [citem EXCEPT ![c] = ZeroItem]

\* ------------------------------------------------------ bounded stack: Init
Pushers == 1..SPushers
Poppers == 1..SPoppers
PushItem(u) == <<u, upushed[u] + 1>>
fixedStackTopValueMask == 1073741823

\* NewFixedStack / newFixedStack / newFixedStackConcurrent
InitStack(nbs, nu, no) ==
    /\ kcap = RoundCapacity(SUserCap)
    /\ knonblock \in nbs
    /\ kstack = [i \in 0..(RoundCapacity(SUserCap) - 1) |-> ZeroItem]
    /\ top = ZeroWord
    /\ upc = [u \in Pushers |-> IF u <= nu THEN "idle" ELSE "off"]
    /\ utop = [u \in Pushers |-> ZeroWord]
    /\ upushed = [u \in Pushers |-> 0]
    /\ uafter = [u \in Pushers |-> FALSE]
    /\ ulast = [u \in Pushers |-> "none"]
    /\ opc = [o \in Poppers |-> IF o <= no THEN "idle" ELSE "off"]
    /\ otop = [o \in Poppers |-> ZeroWord]
    /\ oitem = [o \in Poppers |-> ZeroItem]
    /\ oexp = [o \in Poppers |-> ZeroItem]
    /\ popped = [o \in Poppers |-> <<>>]
    /\ oafter = [o \in Poppers |-> FALSE]
    /\ olast = [o \in Poppers |-> "none"]
    /\ kCloseDone = FALSE
    /\ lin = <<>>

ParkedStack == InitStack({FALSE}, 0, 0)

InitAlloc(pcs, ns, ptrs) ==
    /\ apc \in pcs
    /\ an \in ns
    /\ aptr \in ptrs
    /\ ai = 0
    /\ ablocks = <<>>

ParkedAlloc == InitAlloc({"off"}, {0}, {0})
ParkedQueue == InitQueue(0) /\ qnonblock = FALSE /\ qkind = "none"

\* ------------------------------------------------- message framer: helpers
Threads == 1..MThreads

\* status & bit != 0, status | bit, status &^ bit for a single bit
HasBit(x, b) == (x \div b) % 2 = 1
SetBit(x, b) == IF HasBit(x, b) THEN x ELSE x + b
ClearBit(x, b) == IF HasBit(x, b) THEN x - b ELSE x

\* newMessage: status 0, done false; rd / wr as given by the caller
InitMessage(rds, wrs, nbs, streams, nt) ==
    /\ mrdSet \in rds
    /\ mwrSet \in wrs
    /\ mnonblock \in nbs
    /\ mstream \in streams
    /\ mstatus = 0
    /\ mdone = FALSE
    /\ tpc = [t \in Threads |-> IF t <= nt THEN "idle" ELSE "off"]
    /\ told = [t \in Threads |-> 0]
    /\ tlast = [t \in Threads |-> "none"]

ParkedMessage == InitMessage({FALSE}, {FALSE}, {FALSE}, {FALSE}, 0)

ZeroHeader == [i \in 0..7 |-> 0]

\* a stretch of bytes: for k >= 1 the bytes from..from+len-1 of the payload of
\* the k-th frame written, for k = 0 a stretch of len bytes of value from
Run(k, from, len) == [k |-> k, from |-> from, len |-> len]

\* the paired stream writer and reader of NewMessageReadWriter over a byte stream
InitStream(orders, nbs, limits, budgets, on) ==
    /\ fbo \in orders
    /\ fnonblock \in nbs
    /\ rlimit \in limits
    /\ wbudget \in budgets
    /\ wire = <<>>
    /\ weof = FALSE
    /\ wlog = <<>>
    /\ wheader = ZeroHeader
    /\ wlength = 0
    /\ woffset = 0
    /\ wcount = 0
    /\ wpc = IF on THEN "idle" ELSE "off"
    /\ wsent = <<>>
    /\ wp = Run(0, 0, 0)
    /\ wpend = FALSE
    /\ wn = 0
    /\ wshort = 0
    /\ rheader = ZeroHeader
    /\ rlength = 0
    /\ roffset = 0
    /\ rcount = 0
    /\ rpc = IF on THEN "idle" ELSE "off"
    /\ rplen = 0
    /\ rp = <<>>
    /\ rn = 0
    /\ rgot = <<>>
    /\ rshort = 0
    /\ reofAt = -1

ParkedStream == InitStream({"big"}, {FALSE}, {0}, {0}, FALSE)
ParkedFramer == ParkedMessage /\ ParkedStream

\* ------------------------------------------------------ context, ring, spin wait: Init
InitContext == chain = <<>> /\ attached = <<>>

URingEntries == 2 ^ URingOrder

URingMask == URingEntries - 1

Submitters == 1..UThreads

Waiters == 1..UThreads

\* newIoUring maps the rings: head and tail of both rings are 0
InitSQ(ns) ==
    /\ sqLock = FALSE
    /\ sqHead = 0
    /\ sqTail = 0
    /\ sqes = [x \in 0..URingMask |-> 0]
    /\ spc = [s \in 1..ns |-> "idle"]
    /\ sqh = [s \in 1..ns |-> 0]
    /\ sqt = [s \in 1..ns |-> 0]
    /\ sop = [s \in 1..ns |-> 0]
    /\ snext = 0
    /\ sres = [s \in 1..ns |-> <<>>]
    /\ kseen = <<>>

InitCQ(nw) ==
    /\ cqHead = 0
    /\ cqTail = 0
    /\ cqes = [x \in 0..URingMask |-> 0]
    /\ kposted = 0
    /\ wtpc = [w \in 1..nw |-> "idle"]
    /\ cqh = [w \in 1..nw |-> 0]
    /\ cqt = [w \in 1..nw |-> 0]
    /\ wgot = [w \in 1..nw |-> <<>>]
    /\ wread = [w \in 1..nw |-> <<>>]

InitRegister(ns, sizes) ==
    /\ breq \in [n : ns, size : sizes]
    /\ bret = ""

InitUring == InitSQ(0) /\ InitCQ(0) /\ InitRegister({0}, {0})

MinInt32 == -2147483647 - 1

SpinWaitLevelClient == 0

SpinWaitLevelBlockingIO == 1

spinWaitLevelAtomic == 4

SpinLevels == SpinWaitLevelClient..spinWaitLevelAtomic

\* NewParamSpinWait().SetLevel(level).SetLimit(limit), and then calls of Once
\* at that level: none, or as many as lead to sw.i = i and sw.total = total.
\* gap is 1 when the last calls before that all yielded, 0 before any call.
InitSpinWait(levels, limits, starts) ==
    /\ swlevel \in levels
    /\ swlimit \in limits
    /\ \E b \in starts[swlevel] :
          /\ swi = b.i
          /\ swtotal = b.total
          /\ swgap = b.gap
          /\ swprevgap = b.gap
          /\ swyielded = (b.gap = 1)
    /\ swwraps = 0
    /\ swsteps = 0
    /\ swsince = 0
    /\ swfixed = TRUE

Start(i, total, gap) == [i |-> i, total |-> total, gap |-> gap]

Fresh == [level \in SpinLevels |-> {Start(0, 0, 0)}]

InitSpin == InitSpinWait({0}, {0}, Fresh)

ParkedRest == InitContext /\ InitUring /\ InitSpin

\* ------------------------------- ringQueueConcurrentClose.Close (poller.go)
CloseLoad(p) ==
    /\ ppc[p] \in {"idle", "close"}
    /\ IF tail.c
         THEN /\ ppc' = [ppc EXCEPT ![p] = "idle"]
              /\ closeDone' = TRUE
              /\ UNCHANGED ptail
         ELSE IF tail.w
         THEN /\ ppc' = [ppc EXCEPT ![p] = "close"]
              /\ UNCHANGED <<ptail, closeDone>>
         ELSE /\ ppc' = [ppc EXCEPT ![p] = "closeCas"]
              /\ ptail' = [ptail EXCEPT ![p] = tail]
              /\ UNCHANGED closeDone
    /\ UNCHANGED <<qcap, qnonblock, ring, head, tail, pseq, sawClosedPipe, pafter,
                   cpc, chead, citem, recv, sawEOF>>
    /\ UNCHANGED notqvars

CloseCas_NoCompare(p) ==
    /\ ppc[p] = "closeCas"
    /\ tail' = [tail EXCEPT !.c = TRUE]
    /\ ppc' = [ppc EXCEPT ![p] = "idle"]
    /\ closeDone' = TRUE
    /\ ptail' = [ptail EXCEPT ![p] = ZeroWord]
    /\ UNCHANGED <<qcap, qnonblock, ring, head, pseq, sawClosedPipe, pafter,
                   cpc, chead, citem, recv, sawEOF>>
    /\ UNCHANGED notqvars
CloseCas(p) ==
    /\ ppc[p] = "closeCas"
    /\ IF tail = ptail[p]
         THEN /\ tail' = [tail EXCEPT !.c = TRUE]
              /\ ppc' = [ppc EXCEPT ![p] = "idle"]
              /\ closeDone' = TRUE
         ELSE /\ ppc' = [ppc EXCEPT ![p] = "close"]
              /\ UNCHANGED <<tail, closeDone>>
    /\ ptail' = [ptail EXCEPT ![p] = ZeroWord]
    /\ UNCHANGED <<qcap, qnonblock, ring, head, pseq, sawClosedPipe, pafter,
                   cpc, chead, citem, recv, sawEOF>>
    /\ UNCHANGED notqvars

\* --------------------------------- ringQueueConcurrent (MPMC), poller.go
\* Produce: tail := rq.tail.Load(), writing and closed checks
MPMCProduceLoadTail(p) ==
    /\ ppc[p] \in {"idle", "load"}
    /\ ppc[p] = "idle" => pseq[p] < QItems
    /\ pafter' = [pafter EXCEPT ![p] = IF ppc[p] = "idle" THEN closeDone ELSE @]
    /\ IF tail.w
         THEN /\ ppc' = [ppc EXCEPT ![p] = "load"]
              /\ UNCHANGED <<ptail, sawClosedPipe>>
         ELSE IF tail.c
         THEN ProduceFail(p, "closed")
         ELSE /\ ppc' = [ppc EXCEPT ![p] = "loadHead"]
              /\ ptail' = [ptail EXCEPT ![p] = tail]
              /\ UNCHANGED sawClosedPipe
    /\ UNCHANGED <<qcap, qnonblock, ring, head, tail, pseq,
                   cpc, chead, citem, recv, sawEOF, closeDone>>
    /\ UNCHANGED notqvars

\* Produce: (tail+1)&rq.capacity == rq.head.Load()
MPMCProduceLoadHead_NoFullCheck(p) ==
    /\ ppc[p] = "loadHead"
    /\ ppc' = [ppc EXCEPT ![p] = "cas"]
    /\ UNCHANGED <<ptail, sawClosedPipe>>
    /\ UNCHANGED <<qcap, qnonblock, ring, head, tail, pseq, pafter,
                   cpc, chead, citem, recv, sawEOF, closeDone>>
    /\ UNCHANGED notqvars
MPMCProduceLoadHead(p) ==
    /\ ppc[p] = "loadHead"
    /\ IF AndMask(ptail[p].v + 1, qcap) = head
         THEN IF qnonblock
                THEN ProduceFail(p, "unavailable")
                ELSE /\ ppc' = [ppc EXCEPT ![p] = "load"]
                     /\ ptail' = [ptail EXCEPT ![p] = ZeroWord]
                     /\ UNCHANGED sawClosedPipe
         ELSE /\ ppc' = [ppc EXCEPT ![p] = "cas"]
              /\ UNCHANGED <<ptail, sawClosedPipe>>
    /\ UNCHANGED <<qcap, qnonblock, ring, head, tail, pseq, pafter,
                   cpc, chead, citem, recv, sawEOF, closeDone>>
    /\ UNCHANGED notqvars

\* Produce: rq.tail.CompareAndSwap(tail, writing | (tail+1)&capacity)
MPMCProduceCasTail(p) ==
    /\ ppc[p] = "cas"
    /\ IF tail = ptail[p]
         THEN /\ tail' = Word(TRUE, ptail[p].c, AndMask(ptail[p].v + 1, qcap))
              /\ ppc' = [ppc EXCEPT ![p] = "store"]
              /\ UNCHANGED ptail
         ELSE /\ ppc' = [ppc EXCEPT ![p] = "load"]
              /\ ptail' = [ptail EXCEPT ![p] = ZeroWord]
              /\ UNCHANGED tail
    /\ UNCHANGED <<qcap, qnonblock, ring, head, pseq, sawClosedPipe, pafter,
                   cpc, chead, citem, recv, sawEOF, closeDone>>
    /\ UNCHANGED notqvars

\* Produce: rq.ring[tail&ringQueueTailValueMask] = item
MPMCProduceStoreItem(p) ==
    /\ ppc[p] = "store"
    /\ ring' = [ring EXCEPT ![AndMask(ptail[p].v, ringQueueTailValueMask)] = NextItem(p)]
    /\ ppc' = [ppc EXCEPT ![p] = "release"]
    /\ UNCHANGED <<qcap, qnonblock, head, tail, ptail, pseq, sawClosedPipe, pafter,
                   cpc, chead, citem, recv, sawEOF, closeDone>>
    /\ UNCHANGED notqvars

\* Produce: rq.tail.Store(newTailStatus | newTailVal), return nil
MPMCProduceReleaseTail(p) ==
    /\ ppc[p] = "release"
    /\ tail' = Word(FALSE, ptail[p].c, AndMask(ptail[p].v + 1, qcap))
    /\ pseq' = [pseq EXCEPT ![p] = @ + 1]
    /\ sawClosedPipe' = [sawClosedPipe EXCEPT ![p] = FALSE]
    /\ ppc' = [ppc EXCEPT ![p] = "idle"]
    /\ ptail' = [ptail EXCEPT ![p] = ZeroWord]
    /\ UNCHANGED <<qcap, qnonblock, ring, head, pafter,
                   cpc, chead, citem, recv, sawEOF, closeDone>>
    /\ UNCHANGED notqvars

\* Consume: head := rq.head.Load()
MPMCConsumeLoadHead(c) ==
    /\ cpc[c] \in {"idle", "load"}
    /\ chead' = [chead EXCEPT ![c] = head]
    /\ cpc' = [cpc EXCEPT ![c] = "loadTail"]
    /\ UNCHANGED <<qcap, qnonblock, ring, head, tail, ppc, ptail, pseq, sawClosedPipe,
                   pafter, citem, recv, sawEOF, closeDone>>
    /\ UNCHANGED notqvars

\* Consume: tail := rq.tail.Load(), empty and writing checks
MPMCConsumeLoadTail(c) ==
    /\ cpc[c] = "loadTail"
    /\ IF chead[c] = AndMask(tail.v, ringQueueTailValueMask)
         THEN IF tail.c
                THEN ConsumeFail(c, "eof")
                ELSE IF qnonblock
                THEN ConsumeFail(c, "unavailable")
                ELSE /\ cpc' = [cpc EXCEPT ![c] = "load"]
                     /\ chead' = [chead EXCEPT ![c] = 0]
                     /\ UNCHANGED <<citem, sawEOF>>
         ELSE IF tail.w
         THEN /\ cpc' = [cpc EXCEPT ![c] = "load"]
              /\ chead' = [chead EXCEPT ![c] = 0]
              /\ UNCHANGED <<citem, sawEOF>>
         ELSE /\ cpc' = [cpc EXCEPT ![c] = "read"]
              /\ UNCHANGED <<chead, citem, sawEOF>>
    /\ UNCHANGED <<qcap, qnonblock, ring, head, tail, ppc, ptail, pseq, sawClosedPipe,
                   pafter, recv, closeDone>>
    /\ UNCHANGED notqvars

\* Consume: item = rq.ring[head]
MPMCConsumeReadItem(c) ==
    /\ cpc[c] = "read"
    /\ citem' = [citem EXCEPT ![c] = ring[chead[c]]]
    /\ cpc' = [cpc EXCEPT ![c] = "cas"]
    /\ UNCHANGED <<qcap, qnonblock, ring, head, tail, ppc, ptail, pseq, sawClosedPipe,
                   pafter, chead, recv, sawEOF, closeDone>>
    /\ UNCHANGED notqvars

\* Consume: rq.head.CompareAndSwap(head, (head+1)&rq.capacity), return item
MPMCConsumeCasHead(c) ==
    /\ cpc[c] = "cas"
    /\ IF head = chead[c]
         THEN /\ head' = AndMask(chead[c] + 1, qcap)
              /\ recv' = [recv EXCEPT ![c] = Append(@, citem[c])]
              /\ sawEOF' = [sawEOF EXCEPT ![c] = FALSE]
              /\ cpc' = [cpc EXCEPT ![c] = "idle"]
         ELSE /\ cpc' = [cpc EXCEPT ![c] = "load"]
              /\ UNCHANGED <<head, recv, sawEOF>>
    /\ chead' = [chead EXCEPT ![c] = 0]
    /\ citem' = [citem EXCEPT ![c] = ZeroItem]
    /\ UNCHANGED <<qcap, qnonblock, ring, tail, ppc, ptail, pseq, sawClosedPipe,
                   pafter, closeDone>>
    /\ UNCHANGED notqvars

InitMPMC == InitQueue(QConsumers) /\ qkind = "MPMC" /\ ParkedStack /\ ParkedAlloc /\ ParkedFramer /\ ParkedRest

NextMPMC ==
    \/ \E p \in Producers : MPMCProduceLoadTail(p)
    \/ \E p \in Producers : MPMCProduceLoadHead(p)
    \/ \E p \in Producers : MPMCProduceCasTail(p)
    \/ \E p \in Producers : MPMCProduceStoreItem(p)
    \/ \E p \in Producers : MPMCProduceReleaseTail(p)
    \/ CloseLoad(1)
    \/ CloseCas(1)
    \/ \E c \in Consumers : MPMCConsumeLoadHead(c)
    \/ \E c \in Consumers : MPMCConsumeLoadTail(c)
    \/ \E c \in Consumers : MPMCConsumeReadItem(c)
    \/ \E c \in Consumers : MPMCConsumeCasHead(c)

SpecMPMC == InitMPMC /\ [][NextMPMC]_vars

\* ----------------------------- ringQueueConcurrentProduce (MPSC), poller.go
\* Produce: tail := rq.tail.Load(), writing and closed checks
MPSCProduceLoadTail(p) ==
    /\ ppc[p] \in {"idle", "load"}
    /\ ppc[p] = "idle" => pseq[p] < QItems
    /\ pafter' = [pafter EXCEPT ![p] = IF ppc[p] = "idle" THEN closeDone ELSE @]
    /\ IF tail.w
         THEN /\ ppc' = [ppc EXCEPT ![p] = "load"]
              /\ UNCHANGED <<ptail, sawClosedPipe>>
         ELSE IF tail.c
         THEN ProduceFail(p, "closed")
         ELSE /\ ppc' = [ppc EXCEPT ![p] = "loadHead"]
              /\ ptail' = [ptail EXCEPT ![p] = tail]
              /\ UNCHANGED sawClosedPipe
    /\ UNCHANGED <<qcap, qnonblock, ring, head, tail, pseq,
                   cpc, chead, citem, recv, sawEOF, closeDone>>
    /\ UNCHANGED notqvars

\* Produce: ((tail&ringQueueTailValueMask)+1)&rq.capacity == rq.head
MPSCProduceReadHead(p) ==
    /\ ppc[p] = "loadHead"
    /\ IF AndMask(AndMask(ptail[p].v, ringQueueTailValueMask) + 1, qcap) = head
         THEN IF qnonblock
                THEN ProduceFail(p, "unavailable")
                ELSE /\ ppc' = [ppc EXCEPT ![p] = "load"]
                     /\ ptail' = [ptail EXCEPT ![p] = ZeroWord]
                     /\ UNCHANGED sawClosedPipe
         ELSE /\ ppc' = [ppc EXCEPT ![p] = "cas"]
              /\ UNCHANGED <<ptail, sawClosedPipe>>
    /\ UNCHANGED <<qcap, qnonblock, ring, head, tail, pseq, pafter,
                   cpc, chead, citem, recv, sawEOF, closeDone>>
    /\ UNCHANGED notqvars

\* Produce: rq.tail.CompareAndSwap(tail, writing | (tail+1)&capacity)
MPSCProduceCasTail(p) ==
    /\ ppc[p] = "cas"
    /\ IF tail = ptail[p]
         THEN /\ tail' = Word(TRUE, ptail[p].c, AndMask(ptail[p].v + 1, qcap))
              /\ ppc' = [ppc EXCEPT ![p] = "store"]
              /\ UNCHANGED ptail
         ELSE /\ ppc' = [ppc EXCEPT ![p] = "load"]
              /\ ptail' = [ptail EXCEPT ![p] = ZeroWord]
              /\ UNCHANGED tail
    /\ UNCHANGED <<qcap, qnonblock, ring, head, pseq, sawClosedPipe, pafter,
                   cpc, chead, citem, recv, sawEOF, closeDone>>
    /\ UNCHANGED notqvars

\* Produce: rq.ring[tail&ringQueueTailValueMask] = item
MPSCProduceStoreItem(p) ==
    /\ ppc[p] = "store"
    /\ ring' = [ring EXCEPT ![AndMask(ptail[p].v, ringQueueTailValueMask)] = NextItem(p)]
    /\ ppc' = [ppc EXCEPT ![p] = "release"]
    /\ UNCHANGED <<qcap, qnonblock, head, tail, ptail, pseq, sawClosedPipe, pafter,
                   cpc, chead, citem, recv, sawEOF, closeDone>>
    /\ UNCHANGED notqvars

\* Produce: rq.tail.Store(newTailStatus | newTailVal), return nil
MPSCProduceReleaseTail(p) ==
    /\ ppc[p] = "release"
    /\ tail' = Word(FALSE, ptail[p].c, AndMask(ptail[p].v + 1, qcap))
    /\ pseq' = [pseq EXCEPT ![p] = @ + 1]
    /\ sawClosedPipe' = [sawClosedPipe EXCEPT ![p] = FALSE]
    /\ ppc' = [ppc EXCEPT ![p] = "idle"]
    /\ ptail' = [ptail EXCEPT ![p] = ZeroWord]
    /\ UNCHANGED <<qcap, qnonblock, ring, head, pafter,
                   cpc, chead, citem, recv, sawEOF, closeDone>>
    /\ UNCHANGED notqvars

\* Consume: tail := rq.tail.Load(), writing and empty checks (single consumer)
MPSCConsumeLoadTail(c) ==
    /\ cpc[c] \in {"idle", "load"}
    /\ IF tail.w
         THEN /\ cpc' = [cpc EXCEPT ![c] = "load"]
              /\ UNCHANGED sawEOF
         ELSE IF head = AndMask(tail.v, ringQueueTailValueMask)
         THEN IF tail.c
                THEN /\ cpc' = [cpc EXCEPT ![c] = "idle"]
                     /\ sawEOF' = [sawEOF EXCEPT ![c] = TRUE]
                ELSE IF qnonblock
                THEN /\ cpc' = [cpc EXCEPT ![c] = "idle"]
                     /\ sawEOF' = [sawEOF EXCEPT ![c] = FALSE]
                ELSE /\ cpc' = [cpc EXCEPT ![c] = "load"]
                     /\ UNCHANGED sawEOF
         ELSE /\ cpc' = [cpc EXCEPT ![c] = "read"]
              /\ UNCHANGED sawEOF
    /\ UNCHANGED <<qcap, qnonblock, ring, head, tail, ppc, ptail, pseq, sawClosedPipe,
                   pafter, chead, citem, recv, closeDone>>
    /\ UNCHANGED notqvars

\* Consume: item = rq.ring[rq.head]
MPSCConsumeReadItem(c) ==
    /\ cpc[c] = "read"
    /\ citem' = [citem EXCEPT ![c] = ring[head]]
    /\ cpc' = [cpc EXCEPT ![c] = "advance"]
    /\ UNCHANGED <<qcap, qnonblock, ring, head, tail, ppc, ptail, pseq, sawClosedPipe,
                   pafter, chead, recv, sawEOF, closeDone>>
    /\ UNCHANGED notqvars

\* Consume: rq.head = (rq.head + 1) & rq.capacity, return item
MPSCConsumeAdvanceHead(c) ==
    /\ cpc[c] = "advance"
    /\ head' = AndMask(head + 1, qcap)
    /\ recv' = [recv EXCEPT ![c] = Append(@, citem[c])]
    /\ sawEOF' = [sawEOF EXCEPT ![c] = FALSE]
    /\ cpc' = [cpc EXCEPT ![c] = "idle"]
    /\ citem' = [citem EXCEPT ![c] = ZeroItem]
    /\ UNCHANGED <<qcap, qnonblock, ring, tail, ppc, ptail, pseq, sawClosedPipe,
                   pafter, chead, closeDone>>
    /\ UNCHANGED notqvars

InitMPSC == InitQueue(1) /\ qkind = "MPSC" /\ ParkedStack /\ ParkedAlloc /\ ParkedFramer /\ ParkedRest

NextMPSC ==
    \/ \E p \in Producers : MPSCProduceLoadTail(p)
    \/ \E p \in Producers : MPSCProduceReadHead(p)
    \/ \E p \in Producers : MPSCProduceCasTail(p)
    \/ \E p \in Producers : MPSCProduceStoreItem(p)
    \/ \E p \in Producers : MPSCProduceReleaseTail(p)
    \/ CloseLoad(1)
    \/ CloseCas(1)
    \/ MPSCConsumeLoadTail(1)
    \/ MPSCConsumeReadItem(1)
    \/ MPSCConsumeAdvanceHead(1)

SpecMPSC == InitMPSC /\ [][NextMPSC]_vars

\* --------------------------------------------------------- bounded stack
\* s.top.Add(math.MaxUint32): the 32-bit word minus one, modulo 2^32
WordDec(t) ==
    IF t.v > 0 THEN [t EXCEPT !.v = @ - 1]
    ELSE LET st == (IF t.c THEN 1 ELSE 0) + (IF t.w THEN 2 ELSE 0)
             ns == (st + 3) % 4
         IN Word(ns >= 2, ns % 2 = 1, fixedStackTopValueMask)

\* top+1 on the 32-bit word
WordInc(t) ==
    IF t.v < fixedStackTopValueMask THEN [t EXCEPT !.v = @ + 1]
    ELSE LET st == (IF t.c THEN 1 ELSE 0) + (IF t.w THEN 2 ELSE 0)
             ns == (st + 1) % 4
         IN Word(ns >= 2, ns % 2 = 1, 0)

Last(q) == IF q = <<>> THEN ZeroItem ELSE q[Len(q)]
Front(q) == IF q = <<>> THEN <<>> ELSE SubSeq(q, 1, Len(q) - 1)

PushReturn(u, r) ==
    /\ upc' = [upc EXCEPT ![u] = "idle"]
    /\ ulast' = [ulast EXCEPT ![u] = IF r = "closed" THEN "closed" ELSE "none"]
    /\ utop' = [utop EXCEPT ![u] = ZeroWord]

PopReturn(o, r) ==
    /\ opc' = [opc EXCEPT ![o] = "idle"]
    /\ olast' = [olast EXCEPT ![o] = IF r = "ok" THEN "none" ELSE r]
    /\ otop' = [otop EXCEPT ![o] = ZeroWord]
    /\ oitem' = [oitem EXCEPT ![o] = ZeroItem]
    /\ oexp' = [oexp EXCEPT ![o] = ZeroItem]

\* ---------------------------------- fixedStack (Concurrent=false), fixed_stack.go
\* Push: top := s.top.Load(), closed and full checks
NPushLoad(u) ==
    /\ upc[u] \in {"idle", "load"}
    /\ upc[u] = "idle" => upushed[u] < SeriesItems
    /\ uafter' = [uafter EXCEPT ![u] = IF upc[u] = "idle" THEN kCloseDone ELSE @]
    /\ IF top.c
         THEN PushReturn(u, "closed")
         ELSE IF AndMask(top.v, fixedStackTopValueMask) >= kcap
         THEN IF knonblock
                THEN PushReturn(u, "unavailable")
                ELSE /\ upc' = [upc EXCEPT ![u] = "load"]
                     /\ ulast' = [ulast EXCEPT ![u] = "none"]
                     /\ UNCHANGED utop
         ELSE /\ upc' = [upc EXCEPT ![u] = "store"]
              /\ utop' = [utop EXCEPT ![u] = top]
              /\ ulast' = [ulast EXCEPT ![u] = "none"]
    /\ UNCHANGED <<kcap, knonblock, kstack, top, upushed,
                   opc, otop, oitem, oexp, popped, oafter, olast, kCloseDone, lin>>
    /\ UNCHANGED notkvars

\* Push: s.stack[top] = item (the index is the whole word; no status bit is set here)
NPushStore(u) ==
    /\ upc[u] = "store"
    /\ ~utop[u].w
    /\ kstack' = [kstack EXCEPT ![utop[u].v] = PushItem(u)]
    /\ upc' = [upc EXCEPT ![u] = "cas"]
    /\ UNCHANGED <<kcap, knonblock, top, utop, upushed, uafter, ulast,
                   opc, otop, oitem, oexp, popped, oafter, olast, kCloseDone, lin>>
    /\ UNCHANGED notkvars

\* Push: s.top.CompareAndSwap(top, top+1)
NPushCas(u) ==
    /\ upc[u] = "cas"
    /\ IF top = utop[u]
         THEN /\ top' = WordInc(utop[u])
              /\ lin' = Append(lin, PushItem(u))
              /\ upushed' = [upushed EXCEPT ![u] = @ + 1]
              /\ PushReturn(u, "ok")
         ELSE /\ upc' = [upc EXCEPT ![u] = "load"]
              /\ utop' = [utop EXCEPT ![u] = ZeroWord]
              /\ UNCHANGED <<top, lin, upushed, ulast>>
    /\ UNCHANGED <<kcap, knonblock, kstack, uafter,
                   opc, otop, oitem, oexp, popped, oafter, olast, kCloseDone>>
    /\ UNCHANGED notkvars

\* Pop: top := s.top.Load(), empty check
NPopLoad(o) ==
    /\ opc[o] \in {"idle", "load"}
    /\ oafter' = [oafter EXCEPT ![o] = IF opc[o] = "idle" THEN kCloseDone ELSE @]
    /\ IF AndMask(top.v, fixedStackTopValueMask) <= 0
         THEN IF top.c
                THEN PopReturn(o, "eof")
                ELSE IF knonblock
                THEN PopReturn(o, "unavailable")
                ELSE /\ opc' = [opc EXCEPT ![o] = "load"]
                     /\ olast' = [olast EXCEPT ![o] = "unavailable"]
                     /\ UNCHANGED <<otop, oitem, oexp>>
         ELSE /\ opc' = [opc EXCEPT ![o] = "add"]
              /\ olast' = [olast EXCEPT ![o] = "none"]
              /\ UNCHANGED <<otop, oitem, oexp>>
    /\ UNCHANGED <<kcap, knonblock, kstack, top, upc, utop, upushed, uafter, ulast,
                   popped, kCloseDone, lin>>
    /\ UNCHANGED notkvars

\* Pop: s.top.Add(math.MaxUint32) & fixedStackTopValueMask
NPopAdd(o) ==
    /\ opc[o] = "add"
    /\ top' = WordDec(top)
    /\ otop' = [otop EXCEPT ![o] = WordDec(top)]
    /\ oexp' = [oexp EXCEPT ![o] = Last(lin)]
    /\ lin' = Front(lin)
    /\ opc' = [opc EXCEPT ![o] = "read"]
    /\ UNCHANGED <<kcap, knonblock, kstack, upc, utop, upushed, uafter, ulast,
                   oitem, popped, oafter, olast, kCloseDone>>
    /\ UNCHANGED notkvars

\* Pop: item = s.stack[...], return item
NPopRead(o) ==
    /\ opc[o] = "read"
    /\ AndMask(otop[o].v, fixedStackTopValueMask) < kcap
    /\ popped' = [popped EXCEPT ![o] =
                    Append(@, <<kstack[AndMask(otop[o].v, fixedStackTopValueMask)], oexp[o]>>)]
    /\ PopReturn(o, "ok")
    /\ UNCHANGED <<kcap, knonblock, kstack, top, upc, utop, upushed, uafter, ulast,
                   oafter, kCloseDone, lin>>
    /\ UNCHANGED notkvars

\* Close: top := s.top.Load(), closed check
NCloseLoad(u) ==
    /\ upc[u] \in {"idle", "close"}
    /\ IF top.c
         THEN /\ upc' = [upc EXCEPT ![u] = "idle"]
              /\ kCloseDone' = TRUE
              /\ UNCHANGED utop
         ELSE /\ upc' = [upc EXCEPT ![u] = "closeCas"]
              /\ utop' = [utop EXCEPT ![u] = top]
              /\ UNCHANGED kCloseDone
    /\ UNCHANGED <<kcap, knonblock, kstack, top, upushed, uafter, ulast,
                   opc, otop, oitem, oexp, popped, oafter, olast, lin>>
    /\ UNCHANGED notkvars

\* Close: s.top.CompareAndSwap(top, top|fixedStackStatusClosed)
NCloseCas(u) ==
    /\ upc[u] = "closeCas"
    /\ IF top = utop[u]
         THEN /\ top' = [top EXCEPT !.c = TRUE]
              /\ upc' = [upc EXCEPT ![u] = "idle"]
              /\ kCloseDone' = TRUE
         ELSE /\ upc' = [upc EXCEPT ![u] = "close"]
              /\ UNCHANGED <<top, kCloseDone>>
    /\ utop' = [utop EXCEPT ![u] = ZeroWord]
    /\ UNCHANGED <<kcap, knonblock, kstack, upushed, uafter, ulast,
                   opc, otop, oitem, oexp, popped, oafter, olast, lin>>
    /\ UNCHANGED notkvars

InitStackSeries == InitStack(BOOLEAN, 1, 1) /\ ParkedQueue /\ ParkedFramer /\ ParkedRest /\ ParkedAlloc

NextStackSeries ==
    \/ NPushLoad(1)
    \/ NPushStore(1)
    \/ NPushCas(1)
    \/ NCloseLoad(1)
    \/ NCloseCas(1)
    \/ NPopLoad(1)
    \/ NPopAdd(1)
    \/ NPopRead(1)

SpecStackSeries == InitStackSeries /\ [][NextStackSeries]_vars

\* ------------------------- fixedStackConcurrent (Concurrent=true), fixed_stack.go
\* Push: top := s.top.Load(), writing, closed and full checks
CPushLoad(u) ==
    /\ upc[u] \in {"idle", "load"}
    /\ upc[u] = "idle" => upushed[u] < SItems
    /\ uafter' = [uafter EXCEPT ![u] = IF upc[u] = "idle" THEN kCloseDone ELSE @]
    /\ IF top.w
         THEN /\ upc' = [upc EXCEPT ![u] = "load"]
              /\ ulast' = [ulast EXCEPT ![u] = "none"]
              /\ UNCHANGED utop
         ELSE IF top.c
         THEN PushReturn(u, "closed")
         ELSE IF AndMask(top.v, fixedStackTopValueMask) >= kcap
         THEN IF knonblock
                THEN PushReturn(u, "unavailable")
                ELSE /\ upc' = [upc EXCEPT ![u] = "load"]
                     /\ ulast' = [ulast EXCEPT ![u] = "none"]
                     /\ UNCHANGED utop
         ELSE /\ upc' = [upc EXCEPT ![u] = "cas"]
              /\ utop' = [utop EXCEPT ![u] = top]
              /\ ulast' = [ulast EXCEPT ![u] = "none"]
    /\ UNCHANGED <<kcap, knonblock, kstack, top, upushed,
                   opc, otop, oitem, oexp, popped, oafter, olast, kCloseDone, lin>>
    /\ UNCHANGED notkvars

\* CPushCas with a CAS that publishes the new top without the writing bit
CPushCas_NoWritingBit(u) ==
    /\ upc[u] = "cas"
    /\ IF top = utop[u]
         THEN /\ top' = Word(FALSE, FALSE, AndMask(utop[u].v, fixedStackTopValueMask) + 1)
              /\ upc' = [upc EXCEPT ![u] = "store"]
              /\ UNCHANGED utop
         ELSE /\ upc' = [upc EXCEPT ![u] = "load"]
              /\ utop' = [utop EXCEPT ![u] = ZeroWord]
              /\ UNCHANGED top
    /\ UNCHANGED <<kcap, knonblock, kstack, upushed, uafter, ulast,
                   opc, otop, oitem, oexp, popped, oafter, olast, kCloseDone, lin>>
    /\ UNCHANGED notkvars

\* Push: s.top.CompareAndSwap(top, writing | (top&valueMask + 1))
CPushCas(u) ==
    /\ upc[u] = "cas"
    /\ IF top = utop[u]
         THEN /\ top' = Word(TRUE, FALSE, AndMask(utop[u].v, fixedStackTopValueMask) + 1)
              /\ upc' = [upc EXCEPT ![u] = "store"]
              /\ UNCHANGED utop
         ELSE /\ upc' = [upc EXCEPT ![u] = "load"]
              /\ utop' = [utop EXCEPT ![u] = ZeroWord]
              /\ UNCHANGED top
    /\ UNCHANGED <<kcap, knonblock, kstack, upushed, uafter, ulast,
                   opc, otop, oitem, oexp, popped, oafter, olast, kCloseDone, lin>>
    /\ UNCHANGED notkvars

\* Push: s.stack[top&fixedStackTopValueMask] = item
CPushStore(u) ==
    /\ upc[u] = "store"
    /\ kstack' = [kstack EXCEPT ![AndMask(utop[u].v, fixedStackTopValueMask)] = PushItem(u)]
    /\ upc' = [upc EXCEPT ![u] = "release"]
    /\ UNCHANGED <<kcap, knonblock, top, utop, upushed, uafter, ulast,
                   opc, otop, oitem, oexp, popped, oafter, olast, kCloseDone, lin>>
    /\ UNCHANGED notkvars

\* Push: s.top.Store(newTop without the writing bit), return nil
CPushRelease(u) ==
    /\ upc[u] = "release"
    /\ top' = Word(FALSE, FALSE, AndMask(utop[u].v, fixedStackTopValueMask) + 1)
    /\ lin' = Append(lin, PushItem(u))
    /\ upushed' = [upushed EXCEPT ![u] = @ + 1]
    /\ PushReturn(u, "ok")
    /\ UNCHANGED <<kcap, knonblock, kstack, uafter,
                   opc, otop, oitem, oexp, popped, oafter, olast, kCloseDone>>
    /\ UNCHANGED notkvars

\* Pop: top := s.top.Load(), empty and writing checks
CPopLoad(o) ==
    /\ opc[o] \in {"idle", "load"}
    /\ oafter' = [oafter EXCEPT ![o] = IF opc[o] = "idle" THEN kCloseDone ELSE @]
    /\ IF AndMask(top.v, fixedStackTopValueMask) <= 0
         THEN IF top.c
                THEN PopReturn(o, "eof")
                ELSE IF knonblock
                THEN PopReturn(o, "unavailable")
                ELSE /\ opc' = [opc EXCEPT ![o] = "load"]
                     /\ olast' = [olast EXCEPT ![o] = "unavailable"]
                     /\ UNCHANGED <<otop, oitem, oexp>>
         ELSE IF top.w
         THEN /\ opc' = [opc EXCEPT ![o] = "load"]
              /\ olast' = [olast EXCEPT ![o] = "none"]
              /\ UNCHANGED <<otop, oitem, oexp>>
         ELSE /\ opc' = [opc EXCEPT ![o] = "cas"]
              /\ olast' = [olast EXCEPT ![o] = "none"]
              /\ otop' = [otop EXCEPT ![o] = top]
              /\ UNCHANGED <<oitem, oexp>>
    /\ UNCHANGED <<kcap, knonblock, kstack, top, upc, utop, upushed, uafter, ulast,
                   popped, kCloseDone, lin>>
    /\ UNCHANGED notkvars

\* Pop: s.top.CompareAndSwap(top, writing | (top&valueMask - 1))
CPopCas(o) ==
    /\ opc[o] = "cas"
    /\ IF top = otop[o]
         THEN /\ top' = Word(TRUE, FALSE, AndMask(otop[o].v, fixedStackTopValueMask) - 1)
              /\ oexp' = [oexp EXCEPT ![o] = Last(lin)]
              /\ lin' = Front(lin)
              /\ opc' = [opc EXCEPT ![o] = "read"]
              /\ UNCHANGED otop
         ELSE /\ opc' = [opc EXCEPT ![o] = "load"]
              /\ otop' = [otop EXCEPT ![o] = ZeroWord]
              /\ UNCHANGED <<top, oexp, lin>>
    /\ UNCHANGED <<kcap, knonblock, kstack, upc, utop, upushed, uafter, ulast,
                   oitem, popped, oafter, olast, kCloseDone>>
    /\ UNCHANGED notkvars

\* Pop: item = s.stack[newTop&fixedStackTopValueMask]
CPopRead(o) ==
    /\ opc[o] = "read"
    /\ oitem' = [oitem EXCEPT ![o] = kstack[AndMask(otop[o].v, fixedStackTopValueMask) - 1]]
    /\ opc' = [opc EXCEPT ![o] = "release"]
    /\ UNCHANGED <<kcap, knonblock, kstack, top, upc, utop, upushed, uafter, ulast,
                   otop, oexp, popped, oafter, olast, kCloseDone, lin>>
    /\ UNCHANGED notkvars

\* Pop: s.top.Store(newTop without the writing bit), return item
CPopRelease(o) ==
    /\ opc[o] = "release"
    /\ top' = Word(FALSE, FALSE, AndMask(otop[o].v, fixedStackTopValueMask) - 1)
    /\ PopReturn(o, "ok")
    /\ UNCHANGED <<kcap, knonblock, kstack, upc, utop, upushed, uafter, ulast,
                   popped, oafter, kCloseDone, lin>>
    /\ UNCHANGED notkvars

\* Close: top := s.top.Load(), closed and writing checks
CCloseLoad(u) ==
    /\ upc[u] \in {"idle", "close"}
    /\ IF top.c
         THEN /\ upc' = [upc EXCEPT ![u] = "idle"]
              /\ kCloseDone' = TRUE
              /\ UNCHANGED utop
         ELSE IF top.w
         THEN /\ upc' = [upc EXCEPT ![u] = "close"]
              /\ UNCHANGED <<utop, kCloseDone>>
         ELSE /\ upc' = [upc EXCEPT ![u] = "closeCas"]
              /\ utop' = [utop EXCEPT ![u] = top]
              /\ UNCHANGED kCloseDone
    /\ UNCHANGED <<kcap, knonblock, kstack, top, upushed, uafter, ulast,
                   opc, otop, oitem, oexp, popped, oafter, olast, lin>>
    /\ UNCHANGED notkvars

\* Close: s.top.CompareAndSwap(top, top|fixedStackStatusClosed)
CCloseCas(u) ==
    /\ upc[u] = "closeCas"
    /\ IF top = utop[u]
         THEN /\ top' = [top EXCEPT !.c = TRUE]
              /\ upc' = [upc EXCEPT ![u] = "idle"]
              /\ kCloseDone' = TRUE
         ELSE /\ upc' = [upc EXCEPT ![u] = "close"]
              /\ UNCHANGED <<top, kCloseDone>>
    /\ utop' = [utop EXCEPT ![u] = ZeroWord]
    /\ UNCHANGED <<kcap, knonblock, kstack, upushed, uafter, ulast,
                   opc, otop, oitem, oexp, popped, oafter, olast, lin>>
    /\ UNCHANGED notkvars

InitStackConcurrent == InitStack(BOOLEAN, SPushers, SPoppers) /\ ParkedQueue /\ ParkedFramer /\ ParkedRest /\ ParkedAlloc

NextStackConcurrent ==
    \/ \E u \in Pushers : CPushLoad(u)
    \/ \E u \in Pushers : CPushCas(u)
    \/ \E u \in Pushers : CPushStore(u)
    \/ \E u \in Pushers : CPushRelease(u)
    \/ CCloseLoad(1)
    \/ CCloseCas(1)
    \/ \E o \in Poppers : CPopLoad(o)
    \/ \E o \in Poppers : CPopCas(o)
    \/ \E o \in Poppers : CPopRead(o)
    \/ \E o \in Poppers : CPopRelease(o)

SpecStackConcurrent == InitStackConcurrent /\ [][NextStackConcurrent]_vars

\* ------------------------------------- ringQueue (SPSC, poller.go), plain fields
\* rq.head, rq.tail, rq.closed and rq.ring are plain fields that the producer
\* and the consumer goroutine share without synchronization: the two stores
\* of Produce (slot, tail) and the load and store of Consume (slot, head) reach
\* the other goroutine in either order.

\* Produce: rq.closed, then (rq.tail+1)&rq.capacity == rq.head
SPSCProduceCheck(p) ==
    /\ ppc[p] \in {"idle", "load"}
    /\ ppc[p] = "idle" => pseq[p] < QItems
    /\ pafter' = [pafter EXCEPT ![p] = IF ppc[p] = "idle" THEN closeDone ELSE @]
    /\ IF tail.c
         THEN ProduceFail(p, "closed")
         ELSE IF AndMask(tail.v + 1, qcap) = head
         THEN IF qnonblock
                THEN ProduceFail(p, "unavailable")
                ELSE /\ ppc' = [ppc EXCEPT ![p] = "load"]
                     /\ UNCHANGED <<ptail, sawClosedPipe>>
         ELSE /\ ppc' = [ppc EXCEPT ![p] = "store2"]
              /\ ptail' = [ptail EXCEPT ![p] = tail]
              /\ UNCHANGED sawClosedPipe
    /\ UNCHANGED <<qcap, qnonblock, ring, head, tail, pseq,
                   cpc, chead, citem, recv, sawEOF, closeDone>>
    /\ UNCHANGED notqvars

\* Produce returns nil once both of its stores are done
SPSCProduceStored(p) ==
    IF ppc[p] = "store2"
    THEN UNCHANGED <<pseq, sawClosedPipe, ptail>>
    ELSE /\ pseq' = [pseq EXCEPT ![p] = @ + 1]
         /\ sawClosedPipe' = [sawClosedPipe EXCEPT ![p] = FALSE]
         /\ ptail' = [ptail EXCEPT ![p] = ZeroWord]

\* Produce: rq.ring[rq.tail] = item
SPSCProduceStoreItem(p) ==
    /\ ppc[p] \in {"store2", "storeItem"}
    /\ ring' = [ring EXCEPT ![ptail[p].v] = NextItem(p)]
    /\ ppc' = [ppc EXCEPT ![p] = IF @ = "store2" THEN "storeTail" ELSE "idle"]
    /\ SPSCProduceStored(p)
    /\ UNCHANGED <<qcap, qnonblock, head, tail, pafter,
                   cpc, chead, citem, recv, sawEOF, closeDone>>
    /\ UNCHANGED notqvars

\* Produce: rq.tail = (rq.tail + 1) & rq.capacity
SPSCProduceStoreTail(p) ==
    /\ ppc[p] \in {"store2", "storeTail"}
    /\ tail' = [tail EXCEPT !.v = AndMask(ptail[p].v + 1, qcap)]
    /\ ppc' = [ppc EXCEPT ![p] = IF @ = "store2" THEN "storeItem" ELSE "idle"]
    /\ SPSCProduceStored(p)
    /\ UNCHANGED <<qcap, qnonblock, ring, head, pafter,
                   cpc, chead, citem, recv, sawEOF, closeDone>>
    /\ UNCHANGED notqvars

\* Consume: rq.head == rq.tail, then rq.closed
SPSCConsumeCheck(c) ==
    /\ cpc[c] \in {"idle", "load"}
    /\ IF head = tail.v
         THEN IF tail.c
                THEN ConsumeFail(c, "eof")
                ELSE IF qnonblock
                THEN ConsumeFail(c, "unavailable")
                ELSE /\ cpc' = [cpc EXCEPT ![c] = "load"]
                     /\ UNCHANGED <<sawEOF, chead, citem>>
         ELSE /\ cpc' = [cpc EXCEPT ![c] = "take2"]
              /\ chead' = [chead EXCEPT ![c] = head]
              /\ UNCHANGED <<sawEOF, citem>>
    /\ UNCHANGED <<qcap, qnonblock, ring, head, tail, ppc, ptail, pseq, sawClosedPipe,
                   pafter, recv, closeDone>>
    /\ UNCHANGED notqvars

\* Consume returns item, nil once its load and its store are done
SPSCConsumeTaken(c, item) ==
    IF cpc[c] = "take2"
    THEN /\ citem' = [citem EXCEPT ![c] = item]
         /\ UNCHANGED <<recv, sawEOF, chead>>
    ELSE /\ recv' = [recv EXCEPT ![c] = Append(@, item)]
         /\ sawEOF' = [sawEOF EXCEPT ![c] = FALSE]
         /\ chead' = [chead EXCEPT ![c] = 0]
         /\ citem' = [citem EXCEPT ![c] = ZeroItem]

\* Consume: item = rq.ring[rq.head]
SPSCConsumeReadItem(c) ==
    /\ cpc[c] \in {"take2", "takeItem"}
    /\ cpc' = [cpc EXCEPT ![c] = IF @ = "take2" THEN "takeHead" ELSE "idle"]
    /\ SPSCConsumeTaken(c, ring[chead[c]])
    /\ UNCHANGED <<qcap, qnonblock, ring, head, tail, ppc, ptail, pseq, sawClosedPipe,
                   pafter, closeDone>>
    /\ UNCHANGED notqvars

\* Consume: rq.head = (rq.head + 1) & rq.capacity
SPSCConsumeStoreHead(c) ==
    /\ cpc[c] \in {"take2", "takeHead"}
    /\ head' = AndMask(chead[c] + 1, qcap)
    /\ cpc' = [cpc EXCEPT ![c] = IF @ = "take2" THEN "takeItem" ELSE "idle"]
    /\ SPSCConsumeTaken(c, citem[c])
    /\ UNCHANGED <<qcap, qnonblock, ring, tail, ppc, ptail, pseq, sawClosedPipe,
                   pafter, closeDone>>
    /\ UNCHANGED notqvars

\* Close: rq.closed = true (called by the producer goroutine between Produce calls)
SPSCClose(p) ==
    /\ ppc[p] = "idle"
    /\ ~tail.c
    /\ tail' = [tail EXCEPT !.c = TRUE]
    /\ closeDone' = TRUE
    /\ UNCHANGED <<qcap, qnonblock, ring, head, ppc, ptail, pseq, sawClosedPipe, pafter,
                   cpc, chead, citem, recv, sawEOF>>
    /\ UNCHANGED notqvars

InitSPSC == InitQueue(1) /\ qkind = "SPSC" /\ ParkedStack /\ ParkedAlloc /\ ParkedFramer /\ ParkedRest

NextSPSC ==
    \/ SPSCProduceCheck(1)
    \/ SPSCProduceStoreItem(1)
    \/ SPSCProduceStoreTail(1)
    \/ SPSCClose(1)
    \/ SPSCConsumeCheck(1)
    \/ SPSCConsumeReadItem(1)
    \/ SPSCConsumeStoreHead(1)

SpecSPSC == InitSPSC /\ [][NextSPSC]_vars

\* ------------------- ringQueueConcurrentConsume (SPMC, poller.go): atomic head,
\* plain tail, closed and ring
\* Produce: if rq.closed return io.ErrClosedPipe (checked once, before the loop)
SPMCProduceCheckClosed(p) ==
    /\ ppc[p] = "idle"
    /\ pseq[p] < QItems
    /\ pafter' = [pafter EXCEPT ![p] = closeDone]
    /\ IF tail.c
         THEN ProduceFail(p, "closed")
         ELSE /\ ppc' = [ppc EXCEPT ![p] = "load"]
              /\ UNCHANGED <<ptail, sawClosedPipe>>
    /\ UNCHANGED <<qcap, qnonblock, ring, head, tail, pseq,
                   cpc, chead, citem, recv, sawEOF, closeDone>>
    /\ UNCHANGED notqvars

\* Produce: (rq.tail+1)&rq.capacity == rq.head.Load()&rq.capacity
SPMCProduceLoadHead(p) ==
    /\ ppc[p] = "load"
    /\ IF AndMask(tail.v + 1, qcap) = AndMask(head, qcap)
         THEN IF qnonblock
                THEN ProduceFail(p, "unavailable")
                ELSE UNCHANGED <<ppc, ptail, sawClosedPipe>>
         ELSE /\ ppc' = [ppc EXCEPT ![p] = "store2"]
              /\ ptail' = [ptail EXCEPT ![p] = tail]
              /\ UNCHANGED sawClosedPipe
    /\ UNCHANGED <<qcap, qnonblock, ring, head, tail, pseq, pafter,
                   cpc, chead, citem, recv, sawEOF, closeDone>>
    /\ UNCHANGED notqvars

\* Produce: rq.ring[rq.tail] = item (plain store, unordered with the store of tail)
SPMCProduceStoreItem(p) ==
    /\ ppc[p] \in {"store2", "storeItem"}
    /\ ring' = [ring EXCEPT ![ptail[p].v] = NextItem(p)]
    /\ ppc' = [ppc EXCEPT ![p] = IF @ = "store2" THEN "storeTail" ELSE "idle"]
    /\ SPSCProduceStored(p)
    /\ UNCHANGED <<qcap, qnonblock, head, tail, pafter,
                   cpc, chead, citem, recv, sawEOF, closeDone>>
    /\ UNCHANGED notqvars

\* Produce: rq.tail = (rq.tail + 1) & rq.capacity (plain store), return nil
SPMCProduceStoreTail(p) ==
    /\ ppc[p] \in {"store2", "storeTail"}
    /\ tail' = [tail EXCEPT !.v = AndMask(ptail[p].v + 1, qcap)]
    /\ ppc' = [ppc EXCEPT ![p] = IF @ = "store2" THEN "storeItem" ELSE "idle"]
    /\ SPSCProduceStored(p)
    /\ UNCHANGED <<qcap, qnonblock, ring, head, pafter,
                   cpc, chead, citem, recv, sawEOF, closeDone>>
    /\ UNCHANGED notqvars

\* Consume: head := rq.head.Load()
SPMCConsumeLoadHead(c) ==
    /\ cpc[c] \in {"idle", "load"}
    /\ chead' = [chead EXCEPT ![c] = head]
    /\ cpc' = [cpc EXCEPT ![c] = "cmp"]
    /\ UNCHANGED <<qcap, qnonblock, ring, head, tail, ppc, ptail, pseq, sawClosedPipe,
                   pafter, citem, recv, sawEOF, closeDone>>
    /\ UNCHANGED notqvars

\* Consume: head == rq.tail, then rq.closed
SPMCConsumeReadTail(c) ==
    /\ cpc[c] = "cmp"
    /\ IF chead[c] = tail.v
         THEN IF tail.c
                THEN ConsumeFail(c, "eof")
                ELSE IF qnonblock
                THEN ConsumeFail(c, "unavailable")
                ELSE /\ cpc' = [cpc EXCEPT ![c] = "load"]
                     /\ chead' = [chead EXCEPT ![c] = 0]
                     /\ UNCHANGED <<sawEOF, citem>>
         ELSE /\ cpc' = [cpc EXCEPT ![c] = "read"]
              /\ UNCHANGED <<sawEOF, chead, citem>>
    /\ UNCHANGED <<qcap, qnonblock, ring, head, tail, ppc, ptail, pseq, sawClosedPipe,
                   pafter, recv, closeDone>>
    /\ UNCHANGED notqvars

\* Consume: item = rq.ring[head]
SPMCConsumeReadItem(c) ==
    /\ cpc[c] = "read"
    /\ citem' = [citem EXCEPT ![c] = ring[chead[c]]]
    /\ cpc' = [cpc EXCEPT ![c] = "cas"]
    /\ UNCHANGED <<qcap, qnonblock, ring, head, tail, ppc, ptail, pseq, sawClosedPipe,
                   pafter, chead, recv, sawEOF, closeDone>>
    /\ UNCHANGED notqvars

\* Consume: rq.head.CompareAndSwap(head, (head+1)&rq.capacity)
SPMCConsumeCasHead(c) ==
    /\ cpc[c] = "cas"
    /\ IF head = chead[c]
         THEN /\ head' = AndMask(chead[c] + 1, qcap)
              /\ recv' = [recv EXCEPT ![c] = Append(@, citem[c])]
              /\ sawEOF' = [sawEOF EXCEPT ![c] = FALSE]
              /\ cpc' = [cpc EXCEPT ![c] = "idle"]
         ELSE /\ cpc' = [cpc EXCEPT ![c] = "load"]
              /\ UNCHANGED <<head, recv, sawEOF>>
    /\ chead' = [chead EXCEPT ![c] = 0]
    /\ citem' = [citem EXCEPT ![c] = ZeroItem]
    /\ UNCHANGED <<qcap, qnonblock, ring, tail, ppc, ptail, pseq, sawClosedPipe,
                   pafter, closeDone>>
    /\ UNCHANGED notqvars

\* Close: rq.closed = true (called by the producer goroutine between Produce calls)
SPMCClose(p) ==
    /\ ppc[p] = "idle"
    /\ ~tail.c
    /\ tail' = [tail EXCEPT !.c = TRUE]
    /\ closeDone' = TRUE
    /\ UNCHANGED <<qcap, qnonblock, ring, head, ppc, ptail, pseq, sawClosedPipe, pafter,
                   cpc, chead, citem, recv, sawEOF>>
    /\ UNCHANGED notqvars

InitSPMC == InitQueue(QConsumers) /\ qkind = "SPMC" /\ ParkedStack /\ ParkedAlloc /\ ParkedFramer /\ ParkedRest

NextSPMC ==
    \/ SPMCProduceCheckClosed(1)
    \/ SPMCProduceLoadHead(1)
    \/ SPMCProduceStoreItem(1)
    \/ SPMCProduceStoreTail(1)
    \/ SPMCClose(1)
    \/ \E c \in Consumers : SPMCConsumeLoadHead(c)
    \/ \E c \in Consumers : SPMCConsumeReadTail(c)
    \/ \E c \in Consumers : SPMCConsumeReadItem(c)
    \/ \E c \in Consumers : SPMCConsumeCasHead(c)

SpecSPMC == InitSPMC /\ [][NextSPMC]_vars

\* ------------------------- message status protocol (read / write / close)
MsgReturn(t, r) ==
    /\ tpc' = [tpc EXCEPT ![t] = "idle"]
    /\ tlast' = [tlast EXCEPT ![t] = r]

\* read: if msg.done return io.EOF; then enterRead, which returns at once
\* when msg.wr == nil
MsgReadCall(t) ==
    /\ tpc[t] = "idle"
    /\ IF mdone
         THEN MsgReturn(t, "eof")
         ELSE /\ tpc' = [tpc EXCEPT ![t] = IF mwrSet THEN "rload" ELSE "rbody"]
              /\ tlast' = [tlast EXCEPT ![t] = "none"]
    /\ UNCHANGED <<mrdSet, mwrSet, mnonblock, mstream, mstatus, mdone, told>>
    /\ UNCHANGED notmvars

\* enterRead: oldStatus = msg.status.Load(); (oldStatus & ^messageStatusRead) == 0
MsgEnterReadLoad_AnyStatus(t) ==
    /\ tpc[t] = "rload"
    /\ told' = [told EXCEPT ![t] = mstatus]
    /\ tpc' = [tpc EXCEPT ![t] = "rcas"]
    /\ UNCHANGED tlast
    /\ UNCHANGED <<mrdSet, mwrSet, mnonblock, mstream, mstatus, mdone>>
    /\ UNCHANGED notmvars
MsgEnterReadLoad(t) ==
    /\ tpc[t] = "rload"
    /\ told' = [told EXCEPT ![t] = mstatus]
    /\ IF ClearBit(mstatus, messageStatusRead) = 0
         THEN /\ tpc' = [tpc EXCEPT ![t] = "rcas"]
              /\ UNCHANGED tlast
         ELSE IF ~mnonblock
         THEN UNCHANGED <<tpc, tlast>>
         ELSE MsgReturn(t, "unavailable")
    /\ UNCHANGED <<mrdSet, mwrSet, mnonblock, mstream, mstatus, mdone>>
    /\ UNCHANGED notmvars

\* enterRead: msg.status.CompareAndSwap(oldStatus, oldStatus|messageStatusRead)
MsgEnterReadCas(t) ==
    /\ tpc[t] = "rcas"
    /\ IF mstatus = told[t]
         THEN /\ mstatus' = SetBit(told[t], messageStatusRead)
              /\ tpc' = [tpc EXCEPT ![t] = "rbody"]
         ELSE /\ tpc' = [tpc EXCEPT ![t] = "rload"]
              /\ UNCHANGED mstatus
    /\ UNCHANGED <<mrdSet, mwrSet, mnonblock, mstream, mdone, told, tlast>>
    /\ UNCHANGED notmvars

\* readStream / readPacket between entry and exit: the call returns; only
\* readStream in nonblock mode may return ErrTemporarilyUnavailable, and then
\* it skips exitRead
MsgReadBody(t) ==
    /\ tpc[t] = "rbody"
    /\ \E again \in BOOLEAN :
         /\ again => (mnonblock /\ mstream)
         /\ IF again
              THEN MsgReturn(t, "unavailable")
              ELSE IF mwrSet
              THEN /\ tpc' = [tpc EXCEPT ![t] = "rxload"]
                   /\ UNCHANGED tlast
              ELSE MsgReturn(t, "nil")
    /\ UNCHANGED <<mrdSet, mwrSet, mnonblock, mstream, mstatus, mdone, told>>
    /\ UNCHANGED notmvars

\* exitRead: oldStatus = msg.status.Load()
MsgExitReadLoad(t) ==
    /\ tpc[t] = "rxload"
    /\ told' = [told EXCEPT ![t] = mstatus]
    /\ tpc' = [tpc EXCEPT ![t] = "rxcas"]
    /\ UNCHANGED <<mrdSet, mwrSet, mnonblock, mstream, mstatus, mdone, tlast>>
    /\ UNCHANGED notmvars

\* exitRead: msg.status.CompareAndSwap(oldStatus, oldStatus&^messageStatusRead)
MsgExitReadCas(t) ==
    /\ tpc[t] = "rxcas"
    /\ IF mstatus = told[t]
         THEN /\ mstatus' = ClearBit(told[t], messageStatusRead)
              /\ MsgReturn(t, "nil")
         ELSE /\ tpc' = [tpc EXCEPT ![t] = "rxload"]
              /\ UNCHANGED <<mstatus, tlast>>
    /\ UNCHANGED <<mrdSet, mwrSet, mnonblock, mstream, mdone, told>>
    /\ UNCHANGED notmvars

\* write: if msg.done return ErrMsgClosed; then enterWrite, which returns at
\* once when msg.rd == nil
MsgWriteCall(t) ==
    /\ tpc[t] = "idle"
    /\ IF mdone
         THEN MsgReturn(t, "closed")
         ELSE /\ tpc' = [tpc EXCEPT ![t] = IF mrdSet THEN "wload" ELSE "wbody"]
              /\ tlast' = [tlast EXCEPT ![t] = "none"]
    /\ UNCHANGED <<mrdSet, mwrSet, mnonblock, mstream, mstatus, mdone, told>>
    /\ UNCHANGED notmvars

\* enterWrite: oldStatus = msg.status.Load(); (oldStatus & ^messageStatusWrite) == 0
MsgEnterWriteLoad(t) ==
    /\ tpc[t] = "wload"
    /\ told' = [told EXCEPT ![t] = mstatus]
    /\ IF ClearBit(mstatus, messageStatusWrite) = 0
         THEN /\ tpc' = [tpc EXCEPT ![t] = "wcas"]
              /\ UNCHANGED tlast
         ELSE IF ~mnonblock
         THEN UNCHANGED <<tpc, tlast>>
         ELSE MsgReturn(t, "unavailable")
    /\ UNCHANGED <<mrdSet, mwrSet, mnonblock, mstream, mstatus, mdone>>
    /\ UNCHANGED notmvars

\* enterWrite: msg.status.CompareAndSwap(oldStatus, oldStatus|messageStatusWrite)
MsgEnterWriteCas(t) ==
    /\ tpc[t] = "wcas"
    /\ IF mstatus = told[t]
         THEN /\ mstatus' = SetBit(told[t], messageStatusWrite)
              /\ tpc' = [tpc EXCEPT ![t] = "wbody"]
         ELSE /\ tpc' = [tpc EXCEPT ![t] = "wload"]
              /\ UNCHANGED mstatus
    /\ UNCHANGED <<mrdSet, mwrSet, mnonblock, mstream, mdone, told, tlast>>
    /\ UNCHANGED notmvars

\* writeStream / writePacket between entry and exit (as MsgReadBody)
MsgWriteBody(t) ==
    /\ tpc[t] = "wbody"
    /\ \E again \in BOOLEAN :
         /\ again => (mnonblock /\ mstream)
         /\ IF again
              THEN MsgReturn(t, "unavailable")
              ELSE IF mrdSet
              THEN /\ tpc' = [tpc EXCEPT ![t] = "wxload"]
                   /\ UNCHANGED tlast
              ELSE MsgReturn(t, "nil")
    /\ UNCHANGED <<mrdSet, mwrSet, mnonblock, mstream, mstatus, mdone, told>>
    /\ UNCHANGED notmvars

\* exitWrite: oldStatus = msg.status.Load()
MsgExitWriteLoad(t) ==
    /\ tpc[t] = "wxload"
    /\ told' = [told EXCEPT ![t] = mstatus]
    /\ tpc' = [tpc EXCEPT ![t] = "wxcas"]
    /\ UNCHANGED <<mrdSet, mwrSet, mnonblock, mstream, mstatus, mdone, tlast>>
    /\ UNCHANGED notmvars

\* exitWrite: msg.status.CompareAndSwap(oldStatus, oldStatus&^messageStatusWrite)
MsgExitWriteCas(t) ==
    /\ tpc[t] = "wxcas"
    /\ IF mstatus = told[t]
         THEN /\ mstatus' = ClearBit(told[t], messageStatusWrite)
              /\ MsgReturn(t, "nil")
         ELSE /\ tpc' = [tpc EXCEPT ![t] = "wxload"]
              /\ UNCHANGED <<mstatus, tlast>>
    /\ UNCHANGED <<mrdSet, mwrSet, mnonblock, mstream, mdone, told>>
    /\ UNCHANGED notmvars

\* close: if msg.done return nil
MsgCloseCall(t) ==
    /\ tpc[t] = "idle"
    /\ IF mdone
         THEN MsgReturn(t, "nil")
         ELSE /\ tpc' = [tpc EXCEPT ![t] = "cload"]
              /\ tlast' = [tlast EXCEPT ![t] = "none"]
    /\ UNCHANGED <<mrdSet, mwrSet, mnonblock, mstream, mstatus, mdone, told>>
    /\ UNCHANGED notmvars

\* close: status := msg.status.Load(); it waits (or returns
\* ErrTemporarilyUnavailable) only when the read and the write bit are both set
MsgCloseLoad(t) ==
    /\ tpc[t] = "cload"
    /\ told' = [told EXCEPT ![t] = mstatus]
    /\ IF HasBit(mstatus, messageStatusRead) /\ HasBit(mstatus, messageStatusWrite)
         THEN IF mnonblock
                THEN MsgReturn(t, "unavailable")
                ELSE UNCHANGED <<tpc, tlast>>
         ELSE /\ tpc' = [tpc EXCEPT ![t] = "ccas"]
              /\ UNCHANGED tlast
    /\ UNCHANGED <<mrdSet, mwrSet, mnonblock, mstream, mstatus, mdone>>
    /\ UNCHANGED notmvars

\* close: msg.status.CompareAndSwap(status, status|messageStatusClosed); msg.done = true
MsgCloseCas(t) ==
    /\ tpc[t] = "ccas"
    /\ IF mstatus = told[t]
         THEN /\ mstatus' = SetBit(told[t], messageStatusClosed)
              /\ mdone' = TRUE
              /\ MsgReturn(t, "nil")
         ELSE /\ tpc' = [tpc EXCEPT ![t] = "cload"]
              /\ UNCHANGED <<mstatus, mdone, tlast>>
    /\ UNCHANGED <<mrdSet, mwrSet, mnonblock, mstream, told>>
    /\ UNCHANGED notmvars

\* a message with a reader, a writer or both (setReader / setWriter / setReadWriter)
InitMsgStatus ==
    /\ InitMessage(BOOLEAN, BOOLEAN, BOOLEAN, BOOLEAN, MThreads)
    /\ mrdSet \/ mwrSet
    /\ ParkedQueue /\ ParkedStack /\ ParkedAlloc /\ ParkedStream /\ ParkedRest

NextMsgStatus ==
    \/ \E t \in Threads : MsgReadCall(t)
    \/ \E t \in Threads : MsgEnterReadLoad(t)
    \/ \E t \in Threads : MsgEnterReadCas(t)
    \/ \E t \in Threads : MsgReadBody(t)
    \/ \E t \in Threads : MsgExitReadLoad(t)
    \/ \E t \in Threads : MsgExitReadCas(t)
    \/ \E t \in Threads : MsgWriteCall(t)
    \/ \E t \in Threads : MsgEnterWriteLoad(t)
    \/ \E t \in Threads : MsgEnterWriteCas(t)
    \/ \E t \in Threads : MsgWriteBody(t)
    \/ \E t \in Threads : MsgExitWriteLoad(t)
    \/ \E t \in Threads : MsgExitWriteCas(t)
    \/ \E t \in Threads : MsgCloseCall(t)
    \/ \E t \in Threads : MsgCloseLoad(t)
    \/ \E t \in Threads : MsgCloseCas(t)

SpecMsgStatus == InitMsgStatus /\ [][NextMsgStatus]_vars

\* --------------------------------------- stream framing (readStream/writeStream)
\* the payload bytes the writer is given (test data)
ByteAt(k, i) == (k * 16 + i) % 256

ByteVal(it, j) == IF it.k = 0 THEN it.from ELSE ByteAt(it.k, it.from + j)

Min(a, b) == IF a <= b THEN a ELSE b

RECURSIVE ByteLen(_)
ByteLen(s) == IF s = <<>> THEN 0 ELSE Head(s).len + ByteLen(Tail(s))

\* what is left of the stretch it after its first n bytes
RunRest(it, n) == Run(it.k, IF it.k = 0 THEN it.from ELSE it.from + n, it.len - n)

\* the values of the first n bytes of s
RECURSIVE TakeBytes(_, _)
TakeBytes(s, n) ==
    IF n = 0 \/ s = <<>> THEN <<>>
    ELSE IF Head(s).len = 1
    THEN <<ByteVal(Head(s), 0)>> \o TakeBytes(Tail(s), n - 1)
    ELSE <<ByteVal(Head(s), 0)>> \o TakeBytes(<<RunRest(Head(s), 1)>> \o Tail(s), n - 1)

\* the first n bytes of s, as stretches
RECURSIVE TakeItems(_, _)
TakeItems(s, n) ==
    IF n = 0 \/ s = <<>> THEN <<>>
    ELSE IF Head(s).len <= n
    THEN <<Head(s)>> \o TakeItems(Tail(s), n - Head(s).len)
    ELSE <<Run(Head(s).k, Head(s).from, n)>>

\* s without its first n bytes
RECURSIVE DropBytes(_, _)
DropBytes(s, n) ==
    IF n = 0 \/ s = <<>> THEN s
    ELSE IF Head(s).len <= n
    THEN DropBytes(Tail(s), n - Head(s).len)
    ELSE <<RunRest(Head(s), n)>> \o Tail(s)

\* copy stretches behind the contents of a buffer; consecutive bytes of one
\* payload are kept as one stretch
AppendItem(s, it) ==
    IF s # <<>> /\ it.k >= 1 /\ s[Len(s)].k = it.k /\ s[Len(s)].from + s[Len(s)].len = it.from
    THEN [s EXCEPT ![Len(s)] = Run(it.k, @.from, @.len + it.len)]
    ELSE Append(s, it)

RECURSIVE AppendItems(_, _)
AppendItems(s, its) ==
    IF its = <<>> THEN s ELSE AppendItems(AppendItem(s, Head(its)), Tail(its))

\* a buffer written from position pos on: the bytes before pos that no read
\* has written keep their value (zero)
Pad(p, pos) == IF ByteLen(p) < pos THEN Append(p, Run(0, 0, pos - ByteLen(p))) ELSE p

\* copy(header[start:], bytes)
PutBytes(h, start, bytes) ==
    [i \in 0..7 |-> IF i >= start /\ i < start + Len(bytes) THEN bytes[i - start + 1] ELSE h[i]]

\* byte k (0 = least significant) of a length; lengths of the model are below 2^24
ByteOf(x, k) == IF k >= 3 THEN 0 ELSE (x \div (256 ^ k)) % 256

\* a decoded length of 2^24 or more (above every buffer of the model)
HugeLength == 16777216

\* ExLengthOf with the 8-bit and 16-bit maxima taken as exclusive
ExLengthOf_Exclusive(length) ==
    IF length < messagePayloadMaxLength8Bits THEN 0
    ELSE IF length < messagePayloadMaxLength16Bits THEN 2
    ELSE 7

\* writeStream: exLengthBytes from msg.length
ExLengthOf(length) ==
    IF length <= messagePayloadMaxLength8Bits THEN 0
    ELSE IF length <= messagePayloadMaxLength16Bits THEN 2
    ELSE 7

\* EncodeHeader with the big-endian 56-bit length moved two bytes towards the
\* end of the header, which gives FF 00 00 00 00 00 00 01 for 65536
EncodeHeader_Shifted(h, length, bo) ==
    IF length <= messagePayloadMaxLength8Bits
    THEN [h EXCEPT ![0] = length]
    ELSE IF length <= messagePayloadMaxLength16Bits
    THEN [h EXCEPT ![0] = messagePayloadMaxLength8Bits + 1,
                   ![1] = IF bo = "big" THEN ByteOf(length, 1) ELSE ByteOf(length, 0),
                   ![2] = IF bo = "big" THEN ByteOf(length, 0) ELSE ByteOf(length, 1)]
    ELSE [i \in 0..7 |-> IF i = 0 THEN messagePayloadMaxLength8Bits + 2
                         ELSE IF bo = "big" THEN ByteOf(length, 9 - i)
                         ELSE ByteOf(length, i - 1)]

\* writeStream: the header for msg.length (PutUint16 / PutUint64 in byte order bo)
EncodeHeader(h, length, bo) ==
    IF length <= messagePayloadMaxLength8Bits
    THEN [h EXCEPT ![0] = length]
    ELSE IF length <= messagePayloadMaxLength16Bits
    THEN [h EXCEPT ![0] = messagePayloadMaxLength8Bits + 1,
                   ![1] = IF bo = "big" THEN ByteOf(length, 1) ELSE ByteOf(length, 0),
                   ![2] = IF bo = "big" THEN ByteOf(length, 0) ELSE ByteOf(length, 1)]
    ELSE [i \in 0..7 |-> IF i = 0 THEN messagePayloadMaxLength8Bits + 2
                         ELSE IF bo = "big" THEN ByteOf(length, 7 - i)
                         ELSE ByteOf(length, i - 1)]

\* readStream: exLengthBytes from msg.header[0]
ExLengthBytes(h0) ==
    IF h0 = messagePayloadMaxLength8Bits + 1 THEN 2
    ELSE IF h0 = messagePayloadMaxLength8Bits + 2 THEN 7
    ELSE 0

\* readStream: msg.length from the header (Uint16 / Uint64 in byte order bo)
DecodeLength(h, ex, bo) ==
    IF ex = 2
    THEN IF bo = "big" THEN h[1] * 256 + h[2] ELSE h[1] + h[2] * 256
    ELSE IF ex = 7
    THEN LET d(k) == IF bo = "big" THEN h[7 - k] ELSE h[1 + k]
         IN  IF \E k \in 3..6 : d(k) # 0
             THEN HugeLength
             ELSE d(0) + d(1) * 256 + d(2) * 65536
    ELSE h[0]

\* readStream from the state (offset, header, length): the next transport
\* read it makes, or its return
ReadStage(off, hdr, len0, plen, bo, limit) ==
    IF off < messageHeaderLength
    THEN [pc |-> "hdr", length |-> len0]
    ELSE IF limit > 0 /\ len0 > limit
    THEN [pc |-> "toolong", length |-> len0]
    ELSE LET ex == ExLengthBytes(hdr[0])
         IN  IF off < messageHeaderLength + ex
             THEN [pc |-> "ext", length |-> len0]
             ELSE LET l == IF off = messageHeaderLength + ex
                           THEN DecodeLength(hdr, ex, bo) ELSE len0
                  IN  IF limit > 0 /\ l > limit THEN [pc |-> "toolong", length |-> l]
                      ELSE IF l > plen THEN [pc |-> "short", length |-> l]
                      ELSE IF off < messageHeaderLength + ex + l
                      THEN [pc |-> "body", length |-> l]
                      ELSE [pc |-> "done", length |-> l]

\* a read call returns n, err; the caller keeps the buffer for the next call
\* when err is ErrTemporarilyUnavailable
ReadReturn(n, err, p) ==
    /\ rgot' = Append(rgot, [n |-> n, err |-> err, data |-> p])
    /\ rpc' = "idle"
    /\ rn' = 0
    /\ rp' = IF err = "unavailable" THEN p ELSE <<>>

\* readStream continues after a transport read, or returns: ErrMsgTooLong,
\* io.ErrShortBuffer, or n, nil with msg.count.Add(-1) and msg.reset() when
\* the whole frame has been read
ReadGoto(off, hdr, n, p, plen) ==
    LET st == ReadStage(off, hdr, rlength, plen, fbo, rlimit)
    IN  /\ rheader' = hdr
        /\ rlength' = st.length
        /\ IF st.pc = "done"
             THEN /\ roffset' = 0
                  /\ rcount' = rcount - 1
                  /\ ReadReturn(n, "nil", p)
             ELSE IF st.pc = "short"
             THEN /\ roffset' = off
                  /\ ReadReturn(0, "short buffer", <<>>)
                  /\ UNCHANGED rcount
             ELSE IF st.pc = "toolong"
             THEN /\ roffset' = off
                  /\ ReadReturn(0, "too long", <<>>)
                  /\ UNCHANGED rcount
             ELSE /\ roffset' = off
                  /\ rpc' = st.pc
                  /\ rn' = n
                  /\ rp' = p
                  /\ UNCHANGED <<rgot, rcount>>

\* ReadNothing with a readStream that passes io.EOF inside a frame on as the
\* end of the read, without an error
ReadNothing_NoError(n) ==
    /\ wire = <<>>
    /\ weof \/ fnonblock
    /\ IF weof
         THEN /\ ReadReturn(n, "nil", rp)
              /\ reofAt' = roffset
         ELSE /\ ReadReturn(n, "unavailable", rp)
              /\ UNCHANGED reofAt
    /\ UNCHANGED <<rheader, rlength, roffset, rcount, rplen, rshort, wire>>

\* the transport has nothing to read: io.EOF when its writing end is closed
\* (readStream returns io.ErrUnexpectedEOF), ErrTemporarilyUnavailable in
\* nonblock mode (readStream returns n and that error and keeps its state);
\* a blocking transport waits
ReadNothing(n) ==
    /\ wire = <<>>
    /\ weof \/ fnonblock
    /\ IF weof
         THEN /\ ReadReturn(n, "unexpected eof", rp)
              /\ reofAt' = roffset
         ELSE /\ ReadReturn(n, "unavailable", rp)
              /\ UNCHANGED reofAt
    /\ UNCHANGED <<rheader, rlength, roffset, rcount, rplen, rshort, wire>>

\* what one Read of the transport may return when m bytes fit and are there
ReadSizes(m) ==
    {m} \cup (IF rshort < MaxShort THEN {n \in 1..MaxShortLen : n < m} ELSE {})

\* a Read that returns the last n bytes of a transport whose writing end is
\* closed may report io.EOF with them
EofWith(n) == IF weof /\ n = ByteLen(wire) THEN BOOLEAN ELSE {FALSE}

\* readStream after a transport read that returned bytes, with io.EOF if eof,
\* in a loop that runs while msg.offset < end: on io.EOF return
\* io.ErrUnexpectedEOF if msg.offset < end, else leave the loop
ReadTaken(off, hdr, n, p, eof, end) ==
    IF eof /\ off < end
    THEN /\ rheader' = hdr
         /\ roffset' = off
         /\ ReadReturn(n, "unexpected eof", p)
         /\ reofAt' = off
         /\ UNCHANGED <<rlength, rcount>>
    ELSE /\ ReadGoto(off, hdr, n, p, rplen)
         /\ reofAt' = IF eof /\ ReadStage(off, hdr, rlength, rplen, fbo, rlimit).pc # "done"
                      THEN off ELSE reofAt

LastUnavailable == rgot # <<>> /\ rgot[Len(rgot)].err = "unavailable"

\* read(p) on the reader (msg.wr == nil: enterRead returns at once); after
\* ErrTemporarilyUnavailable the caller calls again with the same buffer
StreamRead(plen) ==
    /\ rpc = "idle"
    /\ Len(rgot) < MaxReads
    /\ LastUnavailable => plen = rplen
    /\ rplen' = plen
    /\ reofAt' = -1
    /\ ReadGoto(roffset, rheader, 0, rp, plen)
    /\ UNCHANGED <<fopts, wire, weof, wside, rshort>>
    /\ UNCHANGED notfvars

\* readStream: rn, err = msg.readOnce(msg.header[msg.offset:messageHeaderLength])
StreamReadHeader ==
    /\ rpc = "hdr"
    /\ \/ /\ wire # <<>>
          /\ \E eof \in EofWith(1) :
               /\ wire' = DropBytes(wire, 1)
               /\ ReadTaken(roffset + 1, PutBytes(rheader, roffset, TakeBytes(wire, 1)),
                            0, rp, eof, messageHeaderLength)
          /\ UNCHANGED <<rplen, rshort>>
       \/ ReadNothing(0)
    /\ UNCHANGED <<fopts, weof, wside>>
    /\ UNCHANGED notfvars

\* readStream: rn, err = msg.readOnce(msg.header[messageHeaderLength : messageHeaderLength+exLengthBytes])
StreamReadExt ==
    /\ rpc = "ext"
    /\ \/ /\ wire # <<>>
          /\ LET ex == ExLengthBytes(rheader[0])
                 m == Min(ex, ByteLen(wire))
             IN  \E n \in ReadSizes(m) : \E eof \in EofWith(n) :
                   /\ wire' = DropBytes(wire, n)
                   /\ rshort' = IF n < m THEN rshort + 1 ELSE rshort
                   /\ ReadTaken(roffset + n,
                                PutBytes(rheader, messageHeaderLength, TakeBytes(wire, n)),
                                0, rp, eof, messageHeaderLength + ex)
          /\ UNCHANGED rplen
       \/ ReadNothing(0)
    /\ UNCHANGED <<fopts, weof, wside>>
    /\ UNCHANGED notfvars

\* readStream: rn, err = msg.readOnce(p[msg.offset-messageHeaderLength-exLengthBytes : msg.length])
StreamReadBody ==
    /\ rpc = "body"
    /\ \/ /\ wire # <<>>
          /\ LET ex == ExLengthBytes(rheader[0])
                 pos == roffset - messageHeaderLength - ex
                 m == Min(rlength - pos, ByteLen(wire))
             IN  \E n \in ReadSizes(m) : \E eof \in EofWith(n) :
                   /\ wire' = DropBytes(wire, n)
                   /\ rshort' = IF n < m THEN rshort + 1 ELSE rshort
                   /\ ReadTaken(roffset + n, rheader, rn + n,
                                AppendItems(Pad(rp, pos), TakeItems(wire, n)),
                                eof, messageHeaderLength + ex + rlength)
          /\ UNCHANGED rplen
       \/ ReadNothing(rn)
    /\ UNCHANGED <<fopts, weof, wside>>
    /\ UNCHANGED notfvars

\* header bytes a..b-1 as they go onto the transport
HeaderBytes(h, a, b) == [i \in 1..(b - a) |-> Run(0, h[a + i - 1], 1)]

\* writeStream from the state (offset, length) with len(p) = plen: the next
\* transport write it makes, or the point it has reached
WriteStage(off, length, plen) ==
    LET ex == ExLengthOf(length)
    IN  IF off < messageHeaderLength + ex THEN "hdr"
        ELSE IF length # off - messageHeaderLength - ex + plen THEN "shortwrite"
        ELSE IF off < messageHeaderLength + ex + length THEN "body"
        ELSE "after"

\* a write call returns n, err; the caller goes on with the rest of the
\* payload unless err is nil
WriteReturn(p, err) ==
    /\ wpc' = "idle"
    /\ wn' = 0
    /\ wp' = p
    /\ wpend' = (err # "nil")

\* writeStream behind its payload loop: io.ErrShortWrite if
\* msg.offset < messageHeaderLength+msg.length, else msg.count.Add(1),
\* msg.reset() and return n, err
PostWrite(off, length, p, err) ==
    IF off < messageHeaderLength + length
    THEN /\ woffset' = off
         /\ WriteReturn(p, "short write")
         /\ UNCHANGED wcount
    ELSE /\ woffset' = 0
         /\ wcount' = wcount + 1
         /\ WriteReturn(p, err)

\* writeStream continues after a transport write that took all it was given
WriteGoto(off, length, p, n) ==
    LET st == WriteStage(off, length, p.len)
    IN  IF st = "shortwrite"
        THEN /\ woffset' = off
             /\ WriteReturn(p, "short write")
             /\ UNCHANGED wcount
        ELSE IF st = "after"
        THEN PostWrite(off, length, p, "nil")
        ELSE /\ woffset' = off
             /\ wpc' = st
             /\ wn' = n
             /\ wp' = p
             /\ UNCHANGED <<wcount, wpend>>

\* what one Write of the transport may take of m bytes: all of them, or in
\* nonblock mode fewer, with ErrTemporarilyUnavailable
WriteSizes(m) ==
    {m} \cup (IF fnonblock /\ wshort < wbudget
              THEN {n \in 0..(m - 1) : n <= MaxShortLen \/ m - n <= MaxShortLen}
              ELSE {})

\* write(p) (msg.rd == nil: enterWrite returns at once), then writeStream up
\* to the header: msg.length = len(p) and the header bytes if msg.offset == 0
WriteCall(p) ==
    /\ wlength' = IF woffset = 0 THEN p.len ELSE wlength
    /\ wheader' = IF woffset = 0 THEN EncodeHeader(wheader, p.len, fbo) ELSE wheader
    /\ WriteGoto(woffset, wlength', p, 0)

\* the caller writes a new payload
StreamWrite(length) ==
    /\ wpc = "idle"
    /\ ~wpend
    /\ ~weof
    /\ Len(wsent) < MsgCount
    /\ wsent' = Append(wsent, length)
    /\ WriteCall(Run(Len(wsent) + 1, 0, length))
    /\ UNCHANGED <<fopts, wire, weof, wlog, wshort, rside>>
    /\ UNCHANGED notfvars

\* the caller calls write again with what is left of the payload, after a
\* call that did not return nil
StreamWriteAgain ==
    /\ wpc = "idle"
    /\ wpend
    /\ ~weof
    /\ WriteCall(wp)
    /\ UNCHANGED <<fopts, wire, weof, wlog, wsent, wshort, rside>>
    /\ UNCHANGED notfvars

\* writeStream: wn, err = msg.writeOnce(msg.header[msg.offset : messageHeaderLength+exLengthBytes])
StreamWriteHeader ==
    /\ wpc = "hdr"
    /\ ~weof
    /\ LET end == messageHeaderLength + ExLengthOf(wlength)
       IN  \E n \in WriteSizes(end - woffset) :
             /\ wire' = wire \o HeaderBytes(wheader, woffset, woffset + n)
             /\ wlog' = wlog \o HeaderBytes(wheader, woffset, woffset + n)
             /\ IF woffset + n = end
                  THEN /\ WriteGoto(end, wlength, wp, wn)
                       /\ UNCHANGED wshort
                  ELSE /\ woffset' = woffset + n
                       /\ wshort' = wshort + 1
                       /\ WriteReturn(wp, "unavailable")
                       /\ UNCHANGED wcount
    /\ UNCHANGED <<fopts, weof, wheader, wlength, wsent, rside>>
    /\ UNCHANGED notfvars

\* writeStream: wn, err = msg.writeOnce(p[:msg.length-(msg.offset-messageHeaderLength-exLengthBytes)]);
\* ErrTemporarilyUnavailable in nonblock mode leaves the loop
StreamWriteBody ==
    /\ wpc = "body"
    /\ ~weof
    /\ \E n \in WriteSizes(wp.len) :
         LET took == IF n = 0 THEN <<>> ELSE <<Run(wp.k, wp.from, n)>>
             rest == Run(wp.k, wp.from + n, wp.len - n)
         IN  /\ wire' = AppendItems(wire, took)
             /\ wlog' = AppendItems(wlog, took)
             /\ IF n = wp.len
                  THEN /\ PostWrite(woffset + n, wlength, rest, "nil")
                       /\ UNCHANGED wshort
                  ELSE /\ wshort' = wshort + 1
                       /\ PostWrite(woffset + n, wlength, rest, "unavailable")
    /\ UNCHANGED <<fopts, weof, wheader, wlength, wsent, rside>>
    /\ UNCHANGED notfvars

\* the writing end of the transport is closed (the peer goes away)
StreamCloseWrite ==
    /\ wpc # "off"
    /\ ~weof
    /\ weof' = TRUE
    /\ UNCHANGED <<fopts, wire, wside, rside>>
    /\ UNCHANGED notfvars

InitStreamPipe ==
    /\ InitStream({"big", "little"}, {FALSE}, {0}, {0}, TRUE)
    /\ ParkedQueue /\ ParkedStack /\ ParkedAlloc /\ ParkedMessage /\ ParkedRest

NextStreamPipe ==
    \/ \E length \in MsgLens : StreamWrite(length)
    \/ StreamWriteHeader
    \/ StreamWriteBody
    \/ \E plen \in BufLens : StreamRead(plen)
    \/ StreamReadHeader
    \/ StreamReadExt
    \/ StreamReadBody

SpecStreamPipe == InitStreamPipe /\ [][NextStreamPipe]_vars

\* the framer over a stream transport that may deliver and accept fewer bytes
\* than asked, report ErrTemporarilyUnavailable, and end
ReadLimits == {0, 253}

ReadBufLens == {1, 300}

StreamLens == {2, 254}

InitStreamAny ==
    /\ InitStream({"big"}, BOOLEAN, ReadLimits, {MaxShortWrites}, TRUE)
    /\ ParkedQueue /\ ParkedStack /\ ParkedAlloc /\ ParkedMessage /\ ParkedRest

NextStreamAny ==
    \/ \E length \in StreamLens : StreamWrite(length)
    \/ StreamWriteAgain
    \/ StreamWriteHeader
    \/ StreamWriteBody
    \/ StreamCloseWrite
    \/ \E plen \in ReadBufLens : StreamRead(plen)
    \/ StreamReadHeader
    \/ StreamReadExt
    \/ StreamReadBody

SpecStreamAny == InitStreamAny /\ [][NextStreamAny]_vars

\* the framer over a boundary-preserving transport (datagram, seqpacket): the
\* transport holds whole packets, one stretch each; one Read of it takes the
\* packet at the front, cut to the buffer
PktLens == {1, 2}

PktBufLens == {2}

\* write(p), writePacket: one writeOnce(p); the transport takes the packet, or
\* in nonblock mode reports ErrTemporarilyUnavailable and takes nothing
PacketWrite(length) ==
    /\ wpc = "idle"
    /\ ~weof
    /\ Len(wsent) < MsgCount
    /\ \/ /\ wire' = Append(wire, Run(Len(wsent) + 1, 0, length))
          /\ wsent' = Append(wsent, length)
          /\ wcount' = wcount + 1
          /\ UNCHANGED wshort
       \/ /\ fnonblock
          /\ wshort < wbudget
          /\ wshort' = wshort + 1
          /\ UNCHANGED <<wire, wsent, wcount>>
    /\ UNCHANGED <<fopts, weof, wlog, wheader, wlength, woffset, wpc, wp, wpend, wn, rside>>
    /\ UNCHANGED notfvars

\* read(p) with msg.rpr.PreserveBoundary(): readPacket is entered
PacketRead(plen) ==
    /\ rpc = "idle"
    /\ Len(rgot) < MaxReads
    /\ LastUnavailable => plen = rplen
    /\ rplen' = plen
    /\ rpc' = "pkt"
    /\ UNCHANGED <<fopts, wire, weof, wside>>
    /\ UNCHANGED <<rheader, rlength, roffset, rcount, rp, rn, rgot, rshort, reofAt>>
    /\ UNCHANGED notfvars

\* readPacket, one pass of its loop: n, err = msg.readOnce(p); return on
\* ErrTemporarilyUnavailable in nonblock mode, leave the loop when n == len(p),
\* else go round again (also on io.EOF, where n is 0)
PacketReadOnce ==
    /\ rpc = "pkt"
    /\ \/ /\ wire # <<>>
          /\ LET n == Min(Head(wire).len, rplen)
                 p == AppendItems(<<Run(Head(wire).k, 0, n)>>, DropBytes(rp, n))
             IN  /\ wire' = Tail(wire)
                 /\ IF n = rplen
                      THEN /\ rcount' = rcount - 1
                           /\ ReadReturn(n, "nil", TakeItems(p, n))
                      ELSE /\ rp' = p
                           /\ UNCHANGED <<rcount, rpc, rn, rgot>>
       \/ /\ wire = <<>>
          /\ fnonblock
          /\ ~weof
          /\ ReadReturn(0, "unavailable", rp)
          /\ UNCHANGED <<wire, rcount>>
       \/ /\ wire = <<>>
          /\ weof
          /\ UNCHANGED <<wire, rcount, rpc, rp, rn, rgot>>
    /\ UNCHANGED <<fopts, weof, wside, rheader, rlength, roffset, rplen, rshort, reofAt>>
    /\ UNCHANGED notfvars

InitPacket ==
    /\ InitStream({"big"}, BOOLEAN, {0}, {MaxShortWrites}, TRUE)
    /\ ParkedQueue /\ ParkedStack /\ ParkedAlloc /\ ParkedMessage /\ ParkedRest

NextPacket ==
    \/ \E length \in PktLens : PacketWrite(length)
    \/ StreamCloseWrite
    \/ \E plen \in PktBufLens : PacketRead(plen)
    \/ PacketReadOnce

SpecPacket == InitPacket /\ [][NextPacket]_vars

\* the stream writer alone, blocking, over the payload lengths at the edges
\* of the three header formats
HeaderLens == {0, 1, 253, 254, 255, 65535, 65536}

InitStreamHeader ==
    /\ InitStream({"big", "little"}, {FALSE}, {0}, {0}, TRUE)
    /\ ParkedQueue /\ ParkedStack /\ ParkedAlloc /\ ParkedMessage /\ ParkedRest

NextStreamHeader ==
    \/ \E length \in HeaderLens : StreamWrite(length)
    \/ StreamWriteHeader
    \/ StreamWriteBody

SpecStreamHeader == InitStreamHeader /\ [][NextStreamHeader]_vars

\* --------------------------------------------- context wrappers (context.go)
\* A context is a chain of wrappers around context.Background(): userdataCtx[T]
\* (kind "ud", with its type T), fdCtx (kind "fd"), and the wrappers of the
\* standard library such as context.WithCancel (kind "std").
CtxTypes == {"int", "string"}

CtxVals == {1, 2}

CtxFds == {3, 4}

CtxNode(kind, type, val) == [kind |-> kind, type |-> type, val |-> val]

CtxTop(c) == c[Len(c)]

CtxInner(c) == SubSeq(c, 1, Len(c) - 1)

\* ContextWithUserdata that overwrites the outermost user payload whatever
\* its type
ContextWithUserdata_AnyType(c, T, v) ==
    IF c # <<>> /\ CtxTop(c).kind = "ud"
    THEN [c EXCEPT ![Len(c)] = CtxNode("ud", T, v)]
    ELSE Append(c, CtxNode("ud", T, v))

\* ContextWithUserdata[T](parent, userdata)
ContextWithUserdata(c, T, v) ==
    IF c # <<>> /\ CtxTop(c).kind = "ud" /\ CtxTop(c).type = T
    THEN [c EXCEPT ![Len(c)] = CtxNode("ud", T, v)]
    ELSE Append(c, CtxNode("ud", T, v))

\* ContextUserdata[T](ctx); 0 is the zero value of T
RECURSIVE ContextUserdata(_, _)
ContextUserdata(c, T) ==
    IF c = <<>> THEN 0
    ELSE IF CtxTop(c).kind = "ud" /\ CtxTop(c).type = T THEN CtxTop(c).val
    ELSE IF CtxTop(c).kind = "ud" THEN ContextUserdata(CtxInner(c), T)
    ELSE 0

\* contextWithFD(parent, fd)
contextWithFD(c, fd) ==
    IF c # <<>> /\ CtxTop(c).kind = "fd"
    THEN [c EXCEPT ![Len(c)] = CtxNode("fd", "fd", fd)]
    ELSE Append(c, CtxNode("fd", "fd", fd))

\* contextFD(ctx)
contextFD(c) == IF c # <<>> /\ CtxTop(c).kind = "fd" THEN CtxTop(c).val ELSE -1

\* ctx = ContextWithUserdata[T](ctx, v)
CtxAttachUserdata(T, v) ==
    /\ Len(attached) < MaxAttach
    /\ chain' = ContextWithUserdata(chain, T, v)
    /\ attached' = Append(attached, CtxNode("ud", T, v))
    /\ UNCHANGED notcvars

\* ctx = contextWithFD(ctx, fd), as the ring operations do before submit
CtxAttachFD(fd) ==
    /\ Len(attached) < MaxAttach
    /\ chain' = contextWithFD(chain, fd)
    /\ attached' = Append(attached, CtxNode("fd", "fd", fd))
    /\ UNCHANGED notcvars

\* ctx, cancel = context.WithCancel(ctx): a wrapper that has none of the
\* methods getUserdata, innerCtx, getFD, setFD
CtxWrapStd ==
    /\ Len(attached) < MaxAttach
    /\ chain' = Append(chain, CtxNode("std", "std", 0))
    /\ attached' = Append(attached, CtxNode("std", "std", 0))
    /\ UNCHANGED notcvars

InitCtx == InitContext /\ ParkedQueue /\ ParkedStack /\ ParkedAlloc /\ ParkedFramer /\ InitUring /\ InitSpin

NextCtx ==
    \/ \E T \in CtxTypes, v \in CtxVals : CtxAttachUserdata(T, v)
    \/ \E fd \in CtxFds : CtxAttachFD(fd)
    \/ CtxWrapStd

SpecCtx == InitCtx /\ [][NextCtx]_vars

\* ------------------------------------------------ io_uring rings (ioUring)
\* The kernel is the other party of both rings. It follows the discipline of
\* the user-space side: it takes the SQEs from head up to tail, posts a CQE at
\* tail when the slot after it is not head, and keeps the indices masked.

\* a thread calls submit
SubmitCall(s) ==
    /\ spc[s] = "idle"
    /\ snext < MaxSubmits
    /\ snext' = snext + 1
    /\ sop' = [sop EXCEPT ![s] = snext + 1]
    /\ spc' = [spc EXCEPT ![s] = "lock"]
    /\ UNCHANGED <<sqLock, sqHead, sqTail, sqes, sqh, sqt, sres, kseen>>
    /\ UNCHANGED <<cqvars, bvars>>
    /\ UNCHANGED notuvars

\* submit that takes the lock without looking at it
SubmitCas_NoCas(s) ==
    /\ spc[s] = "lock"
    /\ sqLock' = TRUE
    /\ spc' = [spc EXCEPT ![s] = "load"]
    /\ UNCHANGED <<sqHead, sqTail, sqes, sqh, sqt, sop, snext, sres, kseen>>
    /\ UNCHANGED <<cqvars, bvars>>
    /\ UNCHANGED notuvars

\* submit: ur.sqLock.CompareAndSwap(false, true) in the spin loop. The spin
\* waiter has limit 0, Closed() is false, and a failed CAS leads back to the
\* same CAS with nothing changed.
SubmitCas(s) ==
    /\ spc[s] = "lock"
    /\ ~sqLock
    /\ sqLock' = TRUE
    /\ spc' = [spc EXCEPT ![s] = "load"]
    /\ UNCHANGED <<sqHead, sqTail, sqes, sqh, sqt, sop, snext, sres, kseen>>
    /\ UNCHANGED <<cqvars, bvars>>
    /\ UNCHANGED notuvars

\* submit: h, t := *ur.sq.kHead, *ur.sq.kTail; (t+1)&mask == h
SubmitLoad(s) ==
    /\ spc[s] = "load"
    /\ sqh' = [sqh EXCEPT ![s] = sqHead]
    /\ sqt' = [sqt EXCEPT ![s] = sqTail]
    /\ spc' = [spc EXCEPT ![s] =
                 IF AndMask(sqTail + 1, URingMask) = sqHead THEN "fail" ELSE "store2"]
    /\ UNCHANGED <<sqLock, sqHead, sqTail, sqes, sop, snext, sres, kseen>>
    /\ UNCHANGED <<cqvars, bvars>>
    /\ UNCHANGED notuvars

\* submit: e := &ur.sq.sqes[t]; e.opcode = op; ...; e.userData = ...
\* The SQE and the tail are written with plain stores to the memory shared
\* with the kernel: they reach the kernel in either order.
SubmitStoreSqe(s) ==
    /\ spc[s] \in {"store2", "storeSqe"}
    /\ sqes' = [sqes EXCEPT ![sqt[s]] = sop[s]]
    /\ spc' = [spc EXCEPT ![s] = IF @ = "store2" THEN "storeTail" ELSE "unlock"]
    /\ UNCHANGED <<sqLock, sqHead, sqTail, sqh, sqt, sop, snext, sres, kseen>>
    /\ UNCHANGED <<cqvars, bvars>>
    /\ UNCHANGED notuvars

\* submit: *ur.sq.kTail = (t + 1) & (*ur.sq.kRingMask)
SubmitStoreTail(s) ==
    /\ spc[s] \in {"store2", "storeTail"}
    /\ sqTail' = AndMask(sqt[s] + 1, URingMask)
    /\ spc' = [spc EXCEPT ![s] = IF @ = "store2" THEN "storeSqe" ELSE "unlock"]
    /\ UNCHANGED <<sqLock, sqHead, sqes, sqh, sqt, sop, snext, sres, kseen>>
    /\ UNCHANGED <<cqvars, bvars>>
    /\ UNCHANGED notuvars

\* submit: the deferred ur.sqLock.Store(false), and the return
SubmitUnlock(s) ==
    /\ spc[s] \in {"unlock", "fail"}
    /\ sqLock' = FALSE
    /\ sres' = [sres EXCEPT ![s] =
                  Append(@, IF spc[s] = "fail" THEN "unavailable" ELSE "nil")]
    /\ spc' = [spc EXCEPT ![s] = "idle"]
    /\ UNCHANGED <<sqHead, sqTail, sqes, sqh, sqt, sop, snext, kseen>>
    /\ UNCHANGED <<cqvars, bvars>>
    /\ UNCHANGED notuvars

\* the kernel takes the SQE at head
KernelTake ==
    /\ sqHead # sqTail
    /\ kseen' = Append(kseen, sqes[sqHead])
    /\ sqHead' = AndMask(sqHead + 1, URingMask)
    /\ UNCHANGED <<sqLock, sqTail, sqes, spc, sqh, sqt, sop, snext, sres>>
    /\ UNCHANGED <<cqvars, bvars>>
    /\ UNCHANGED notuvars

InitUringSQ ==
    /\ InitSQ(UThreads) /\ InitCQ(0) /\ InitRegister({0}, {0})
    /\ ParkedQueue /\ ParkedStack /\ ParkedAlloc /\ ParkedFramer /\ InitContext /\ InitSpin

NextUringSQ ==
    \/ \E s \in Submitters :
         \/ SubmitCall(s)
         \/ SubmitCas(s)
         \/ SubmitLoad(s)
         \/ SubmitStoreSqe(s)
         \/ SubmitStoreTail(s)
         \/ SubmitUnlock(s)
    \/ KernelTake

SpecUringSQ == InitUringSQ /\ [][NextUringSQ]_vars

\* the kernel posts a completion
KernelPost ==
    /\ kposted < MaxCompletions
    /\ AndMask(cqTail + 1, URingMask) # cqHead
    /\ cqes' = [cqes EXCEPT ![cqTail] = kposted + 1]
    /\ cqTail' = AndMask(cqTail + 1, URingMask)
    /\ kposted' = kposted + 1
    /\ UNCHANGED <<cqHead, wtpc, cqh, cqt, wgot, wread>>
    /\ UNCHANGED <<sqvars, bvars>>
    /\ UNCHANGED notuvars

\* wait: atomic.LoadUint32(ur.cq.kHead), at the call and after a failed CAS
WaitLoadHead(w) ==
    /\ wtpc[w] = "idle"
    /\ cqh' = [cqh EXCEPT ![w] = cqHead]
    /\ wtpc' = [wtpc EXCEPT ![w] = "loadTail"]
    /\ UNCHANGED <<cqHead, cqTail, cqes, kposted, cqt, wgot, wread>>
    /\ UNCHANGED <<sqvars, bvars>>
    /\ UNCHANGED notuvars

\* wait: atomic.LoadUint32(ur.cq.kTail); if h == t, break and return
\* ErrTemporarilyUnavailable
WaitLoadTail(w) ==
    /\ wtpc[w] = "loadTail"
    /\ cqt' = [cqt EXCEPT ![w] = cqTail]
    /\ wtpc' = [wtpc EXCEPT ![w] = IF cqh[w] = cqTail THEN "idle" ELSE "cas"]
    /\ UNCHANGED <<cqHead, cqTail, cqes, kposted, cqh, wgot, wread>>
    /\ UNCHANGED <<sqvars, bvars>>
    /\ UNCHANGED notuvars

\* wait: e := &ur.cq.cqes[h]; CompareAndSwapUint32(ur.cq.kHead, h, (h+1)&mask);
\* return e, nil when the CAS succeeds, otherwise go round the loop again
WaitCas(w) ==
    /\ wtpc[w] = "cas"
    /\ wtpc' = [wtpc EXCEPT ![w] = "idle"]
    /\ IF cqHead = cqh[w]
         THEN /\ cqHead' = AndMask(cqh[w] + 1, URingMask)
              /\ wgot' = [wgot EXCEPT ![w] =
                            Append(@, [slot |-> cqh[w], cqe |-> cqes[cqh[w]]])]
         ELSE UNCHANGED <<cqHead, wgot>>
    /\ UNCHANGED <<cqTail, cqes, kposted, cqh, cqt, wread>>
    /\ UNCHANGED <<sqvars, bvars>>
    /\ UNCHANGED notuvars

\* the caller of wait reads the entry that wait returned
CallerRead(w) ==
    /\ Len(wread[w]) < Len(wgot[w])
    /\ wread' = [wread EXCEPT ![w] = Append(@, cqes[wgot[w][Len(wread[w]) + 1].slot])]
    /\ UNCHANGED <<cqHead, cqTail, cqes, kposted, wtpc, cqh, cqt, wgot>>
    /\ UNCHANGED <<sqvars, bvars>>
    /\ UNCHANGED notuvars

InitUringCQ ==
    /\ InitSQ(0) /\ InitCQ(UThreads) /\ InitRegister({0}, {0})
    /\ ParkedQueue /\ ParkedStack /\ ParkedAlloc /\ ParkedFramer /\ InitContext /\ InitSpin

NextUringCQ ==
    \/ KernelPost
    \/ \E w \in Waiters :
         \/ WaitLoadHead(w)
         \/ WaitLoadTail(w)
         \/ WaitCas(w)
         \/ CallerRead(w)

SpecUringCQ == InitUringCQ /\ [][NextUringCQ]_vars

\* ------------------------------------------------ ioUring.registerBuffers
RECURSIVE BitAnd(_, _)
BitAnd(a, b) ==
    IF a = 0 \/ b = 0 THEN 0
    ELSE 2 * BitAnd(a \div 2, b \div 2) + (IF a % 2 = 1 /\ b % 2 = 1 THEN 1 ELSE 0)

\* registerBuffers(n, size) on a ring without registered buffers: the
\* parameter test; behind it NewBuffers and the io_uring_register call
registerBuffers(n, size) ==
    IF n < 1 \/ size < 1 \/ n # BitAnd(n, n - 1) \/ size # BitAnd(size, size - 1)
    THEN "ErrInvalidParam"
    ELSE "registered"

RegisterBuffers ==
    /\ bret = ""
    /\ bret' = registerBuffers(breq.n, breq.size)
    /\ UNCHANGED <<breq, sqvars, cqvars>>
    /\ UNCHANGED notuvars

InitRegisterBuffers ==
    /\ InitSQ(0) /\ InitCQ(0) /\ InitRegister(0..MaxRegister, 0..MaxRegister)
    /\ ParkedQueue /\ ParkedStack /\ ParkedAlloc /\ ParkedFramer /\ InitContext /\ InitSpin

NextRegisterBuffers == RegisterBuffers

SpecRegisterBuffers == InitRegisterBuffers /\ [][NextRegisterBuffers]_vars

\* ------------------------------------------- ParamSpinWait (spin_wait.go)
\* sw.i is a uint32 and sw.total an int32. A 32-bit word is kept as the
\* two's-complement reading of its bits, so the uint32 values from 2^31 up to
\* 2^32 - 1 are the negative numbers MinInt32 .. -1.
MaxInt32 == 2147483647

\* x + 1 in 32 bits
Inc32(x) == IF x = MaxInt32 THEN MinInt32 ELSE x + 1

\* a >= b for two uint32
GeU32(a, b) == IF (a < 0) = (b < 0) THEN a >= b ELSE a < 0

\* i & (1<<sh - 1) == 0 for the uint32 i: 1<<sh is 0 for sh >= 32
LowBitsZero(i, sh) ==
    IF sh >= 32 THEN i = 0
    ELSE IF sh = 31 THEN i \in {0, MinInt32}
    ELSE i % (2 ^ sh) = 0

\* the level OnceWithLevel passes on
ClampLevel(level) ==
    IF level < SpinWaitLevelClient THEN SpinWaitLevelClient
    ELSE IF level > spinWaitLevelAtomic THEN spinWaitLevelAtomic
    ELSE level

\* sw.willYield(level)
willYield(i, total, level) ==
    LET x == level * 2
    IN  LowBitsZero(i, x - Min(x, total \div 2))

\* sw.Closed()
Closed == swlimit > 0 /\ GeU32(swi, swlimit)

\* sw.once(level)
once(level) ==
    LET i == Inc32(swi)
        yields == willYield(i, swtotal, level)
    IN  /\ swi' = i
        /\ swtotal' = IF yields THEN Inc32(swtotal) ELSE swtotal
        /\ swwraps' = IF i = 0 THEN swwraps + 1 ELSE swwraps
        /\ swsteps' = swsteps + 1
        /\ swyielded' = yields
        /\ swsince' = IF yields THEN 0 ELSE swsince + 1
        /\ swgap' = IF yields THEN swsince + 1 ELSE swgap
        /\ swprevgap' = IF yields THEN swgap ELSE swprevgap
        /\ swfixed' = (swfixed /\ level = swlevel)
        /\ UNCHANGED <<swlevel, swlimit>>
        /\ UNCHANGED notsvars

\* sw.Once()
SpinOnce(max) == swsteps < max /\ once(swlevel)

\* sw.OnceWithLevel(level)
SpinOnceWithLevel(level, max) == swsteps < max /\ once(ClampLevel(level))

\* sw.Reset()
SpinReset ==
    /\ swsteps > 0
    /\ swi' = 0
    /\ swtotal' = 0
    /\ swwraps' = 0
    /\ swsteps' = 0
    /\ swyielded' = FALSE
    /\ swsince' = 0
    /\ swgap' = 0
    /\ swprevgap' = 0
    /\ swfixed' = TRUE
    /\ UNCHANGED <<swlevel, swlimit>>
    /\ UNCHANGED notsvars

SpinLimits == {0, 1, 3}

\* the waiter after 2^32 - 2 calls of Once: sw.total has gone from 2^31 - 1
\* to -2^31 at the 2^31-th yield and no call has yielded since
NearWrap == [level \in SpinLevels |-> Fresh[level] \cup {Start(-2, MinInt32, 0)}]

ParkedNotSpin == ParkedQueue /\ ParkedStack /\ ParkedAlloc /\ ParkedFramer /\ InitContext /\ InitUring

InitSpinClosed == InitSpinWait(SpinLevels, SpinLimits, NearWrap) /\ ParkedNotSpin

NextSpinClosed ==
    \/ SpinOnce(MaxClosedCalls)
    \/ \E level \in -1..(spinWaitLevelAtomic + 1) : SpinOnceWithLevel(level, MaxClosedCalls)
    \/ SpinReset

SpecSpinClosed == InitSpinClosed /\ [][NextSpinClosed]_vars

\* the number of calls at level k after which every call yields, and the
\* number of yields up to there
AllYieldFrom(k) == 4 * (4 ^ k) - 4

\* the waiter after 2^31 - 2 yields of Once at its level
NearOverflow ==
    [level \in SpinLevels |->
        Fresh[level] \cup
        {LET c == AllYieldFrom(level) - 4 * level
         IN  Start(IF c < 2 THEN (MaxInt32 - 1) + c ELSE MinInt32 + (c - 2), MaxInt32 - 1, 1)}]

InitSpinYield == InitSpinWait(SpinLevels, {0}, NearOverflow) /\ ParkedNotSpin

NextSpinYield ==
    \/ SpinOnce(MaxYieldCalls)
    \/ SpinReset

SpecSpinYield == InitSpinYield /\ [][NextSpinYield]_vars

\* ------------------------------------------------------ ring queue: claims
StrictlyIncreasing(s) == \A i \in 1..Len(s) : \A j \in 1..Len(s) : i < j => s[i] < s[j]

\* C1: in the MPMC ring queue, under any interleaving, the items one consumer
\* receives from one producer appear in that producer's production order
\* (each later than the one before, as testRingQueueConcurrent requires).
C1_PerProducerOrder ==
    \A c \in Consumers : \A p \in Producers : StrictlyIncreasing(Proj(recv[c], p))

\* C2: in the MPSC ring queue the consumed sequence restricted to producer p
\* is that producer's production sequence 1, 2, ...: nothing missing, nothing
\* duplicated, nothing reordered.
C2_ProjectionIsProduction ==
    \A p \in Producers : IsPrefix(Proj(recv[1], p), Iota(QItems))

\* number of items whose Produce has returned nil
RECURSIVE SumSeq(_, _)
SumSeq(f, n) == IF n = 0 THEN 0 ELSE f[n] + SumSeq(f, n - 1)
Produced == SumSeq(pseq, QProducers)

\* C3: once Close has returned, a Produce started afterwards returns
\* closed-pipe, and the items produced but not yet consumed are exactly what
\* the consumer still receives before Consume returns end-of-stream: when
\* end-of-stream is returned every produced item has been consumed, in order.
C3_CloseDrain ==
    /\ \A p \in Producers :
         pafter[p] => /\ ppc[p] \in {"idle", "load", "close", "closeCas"}
                      /\ (ppc[p] = "idle" => sawClosedPipe[p])
    /\ sawEOF[1] =>
         /\ Len(recv[1]) = Produced
         /\ \A p \in Producers : Proj(recv[1], p) = Iota(pseq[p])

\* C11: in the SPSC ring queue with the producer and the consumer running in
\* parallel, the i-th successful Consume returns the i-th produced item.
C11_SPSCFifo ==
    \A i \in 1..Len(recv[1]) : recv[1][i] = <<1, i>>

\* C12: in the SPMC ring queue every item a consumer receives was produced
\* later than the item that consumer received before.
C12_SPMCOrder ==
    \A c \in Consumers :
        \A i \in 1..Len(recv[c]) : \A j \in 1..Len(recv[c]) :
            i < j => recv[c][i][2] < recv[c][j][2]

\* ---------------------------------------------------- bounded stack: claims
RECURSIVE Returned(_)
Returned(s) == IF s = <<>> THEN {} ELSE {Head(s)[1]} \cup Returned(Tail(s))

\* C9: a Concurrent=false stack used by exactly one pushing and one popping
\* goroutine in parallel never loses or duplicates an item: every successful
\* Pop returns an item that was pushed and not popped before, namely the item
\* on top of the stack when the Pop took it (LIFO).
C9_SeriesParallel ==
    /\ \A i \in 1..Len(popped[1]) : popped[1][i][1] = popped[1][i][2]
    /\ Cardinality(Returned(popped[1])) = Len(popped[1])
    /\ \A i \in 1..Len(popped[1]) :
         popped[1][i][1][1] = 1 /\ popped[1][i][1][2] \in 1..upushed[1]

\* C10: in the concurrent stack, under any interleaving of pushers and
\* poppers, a successful Pop returns the item of the most recent completed
\* Push that was not yet popped when the Pop's CAS on top succeeded.
C10_LinearizableLIFO ==
    \A o \in Poppers : opc[o] = "release" => oitem[o] = oexp[o] /\ oitem[o] # ZeroItem

\* C10 witness: a popper is about to return the item it claimed while an item
\* of the other pusher is still on the stack below it
C10_Witness ==
    \E o \in Poppers : opc[o] = "release" /\ oitem[o] = oexp[o] /\ lin # <<>>
                         /\ top.v >= 1

\* C4: once Close has returned the stack stays closed: a Push started
\* afterwards returns closed-pipe, whatever Pops ran in between.
C4_StaysClosed ==
    \A u \in Pushers :
        uafter[u] => /\ upc[u] \in {"idle", "load", "close", "closeCas"}
                     /\ (upc[u] = "idle" => ulast[u] = "closed")

\* C5: after a stack holding k items is closed, Pop returns those items and
\* then end-of-stream: a Pop started after Close returned never finds the
\* stack empty-and-open (temporarily-unavailable, or blocking), and when it
\* returns end-of-stream every pushed item has been popped.
C5_DrainThenEOF ==
    \A o \in Poppers :
        oafter[o] => /\ olast[o] # "unavailable"
                     /\ (olast[o] = "eof" => lin = <<>>)

\* ---------------------------------------------------- message framer: claims
\* what the i-th read has to return: the payload of the i-th write
ExpectedRead(i) ==
    [n |-> wsent[i], err |-> "nil", data |-> <<Run(i, 0, wsent[i])>>]

\* C6: whatever sizes the reads of the underlying stream return, the payloads
\* written through the stream writer are returned by the paired reader one
\* payload per read, identical in content and in order.
C6_StreamRoundTrip ==
    /\ Len(rgot) <= Len(wsent)
    /\ \A i \in 1..Len(rgot) : i <= Len(wsent) => rgot[i] = ExpectedRead(i)

\* frame i as the stream protocol puts it on the transport: header, payload
Framed(i) ==
    HeaderBytes(EncodeHeader([j \in 0..7 |-> 0], wsent[i], fbo),
                0, messageHeaderLength + ExLengthOf(wsent[i]))
      \o (IF wsent[i] = 0 THEN <<>> ELSE <<Run(i, 0, wsent[i])>>)

RECURSIVE FramedUpTo(_)
FramedUpTo(i) == IF i = 0 THEN <<>> ELSE FramedUpTo(i - 1) \o Framed(i)

\* the bytes the transport has accepted are a prefix of the frames written
ProperStream == wlog = TakeItems(FramedUpTo(Len(wsent)), ByteLen(wlog))

NilReads(j) == Cardinality({i \in 1..j : rgot[i].err = "nil"})

\* C15: on a boundary-preserving transport every read that returns nil
\* returns one packet, the j-th read the j-th packet, whole, also when the
\* packet is shorter than the buffer, and no further packet has been taken
\* off the transport
C15_OnePacketPerRead ==
    /\ \A j \in 1..Len(rgot) : rgot[j].err = "nil" => rgot[j] = ExpectedRead(NilReads(j))
    /\ rpc = "idle" => Len(wsent) - Len(wire) = NilReads(Len(rgot))

\* bytes the reader has taken off the transport
Consumed == ByteLen(wlog) - ByteLen(wire)

\* C16: with a read limit L > 0 and a first frame whose header encodes a
\* length above L, no read returns nil or any payload, and once the header has
\* been read the read fails with ErrMsgTooLong
C16_TooLong ==
    (rlimit > 0 /\ wsent # <<>> /\ wsent[1] > rlimit /\ ProperStream) =>
        /\ \A j \in 1..Len(rgot) :
              /\ rgot[j].err \in {"too long", "unavailable", "unexpected eof"}
              /\ rgot[j].n = 0
              /\ rgot[j].data = <<>>
        /\ ( /\ rpc = "idle"
             /\ rgot # <<>>
             /\ Consumed >= messageHeaderLength + ExLengthOf(wsent[1]) )
           => rgot[Len(rgot)].err = "too long"

\* the reads before the j-th left the stream in step: each returned a whole
\* frame, ErrTemporarilyUnavailable or io.ErrShortBuffer
InStep(j) ==
    \A i \in 1..j :
        /\ rgot[i].err \in {"nil", "unavailable", "short buffer"}
        /\ rgot[i].err = "nil" => rgot[i] = ExpectedRead(NilReads(i))

\* C17: a read that fails with io.ErrShortBuffer leaves the frame where it
\* is: the read that follows it, with a buffer that holds the frame's payload,
\* returns that frame whole (unless the transport has no more bytes for it)
C17_ShortBufferKeepsFrame ==
    ( /\ rlimit = 0
      /\ ProperStream
      /\ rpc = "idle"
      /\ Len(rgot) >= 2
      /\ InStep(Len(rgot) - 1)
      /\ rgot[Len(rgot) - 1].err = "short buffer"
      /\ NilReads(Len(rgot) - 1) < Len(wsent)
      /\ wsent[NilReads(Len(rgot) - 1) + 1] <= rplen )
    => \/ rgot[Len(rgot)].err \in {"unavailable", "unexpected eof"}
       \/ rgot[Len(rgot)] = ExpectedRead(NilReads(Len(rgot) - 1) + 1)

\* the last call of the reader was told io.EOF by the transport inside a
\* frame: after at least one byte of it and before its last
EofInFrame == rpc = "idle" /\ rgot # <<>> /\ reofAt >= 1

FormatHeader(length, bo) ==
    IF length <= 253 THEN <<length>>
    ELSE IF length <= 65535
    THEN IF bo = "big" THEN <<254, length \div 256, length % 256>>
         ELSE <<254, length % 256, length \div 256>>
    ELSE IF bo = "big"
    THEN <<255, 0, 0, 0, 0, (length \div 65536) % 256, (length \div 256) % 256, length % 256>>
    ELSE <<255, length % 256, (length \div 256) % 256, (length \div 65536) % 256, 0, 0, 0, 0>>

\* frame i with the documented header
FormatFrame(i) ==
    [j \in 1..Len(FormatHeader(wsent[i], fbo)) |-> Run(0, FormatHeader(wsent[i], fbo)[j], 1)]
      \o (IF wsent[i] = 0 THEN <<>> ELSE <<Run(i, 0, wsent[i])>>)

RECURSIVE FormatUpTo(_)
FormatUpTo(i) == IF i = 0 THEN <<>> ELSE FormatUpTo(i - 1) \o FormatFrame(i)

\* C19: what the stream writer puts on the transport is, frame after frame, a
\* header of 1 byte for a length of 0..253, of 3 bytes (0xFE, 16-bit length)
\* for 254..65535 and of 8 bytes (0xFF, 56-bit length) from 65536 up, and then
\* the payload
C19_HeaderSizes == wlog = TakeItems(FormatUpTo(Len(wsent)), ByteLen(wlog))

\* payloads of 253 and 254 bytes, or of 65535 and 65536 bytes, have been
\* written one after the other
C19_Witness ==
    /\ wpc = "idle"
    /\ wcount = 2
    /\ wsent \in {<<253, 254>>, <<65535, 65536>>, <<255, 0>>}

\* where frame i begins among the bytes written
RECURSIVE FrameStart(_)
FrameStart(i) == IF i = 1 THEN 0 ELSE FrameStart(i - 1) + ByteLen(FormatFrame(i - 1))

\* the reader's header buffer, first to last byte
ReadHeaderBytes == [j \in 1..8 |-> rheader[j - 1]]

\* the claim about the header of a 65536-byte payload in big-endian order:
\* the writer emits the 8 bytes hdr before the payload, and the reader, with
\* these 8 bytes read, has the length 65536
Header65536Is(hdr) ==
    fbo = "big" =>
        /\ \A i \in 1..Len(wsent) :
              (wsent[i] = 65536 /\ ByteLen(wlog) >= FrameStart(i) + 8)
              => TakeBytes(DropBytes(wlog, FrameStart(i)), 8) = hdr
        /\ (roffset = 8 /\ ReadHeaderBytes = hdr) => rlength = 65536

\* C20 as stated: the header of a 65536-byte payload, big-endian, is
\* FF 00 00 00 00 00 00 01 and is decoded back to 65536
C20_Header65536 == Header65536Is(<<255, 0, 0, 0, 0, 0, 0, 1>>)

\* C20, amended: the header of a 65536-byte payload, big-endian, is
\* FF 00 00 00 00 01 00 00 and is decoded back to 65536
C20_Header65536BigEndian == Header65536Is(<<255, 0, 0, 0, 0, 1, 0, 0>>)

\* a 65536-byte payload has been written in big-endian order and the reader
\* has read its header
C20_Witness ==
    /\ fbo = "big"
    /\ wsent # <<>> /\ wsent[1] = 65536
    /\ roffset = 8
    /\ ReadHeaderBytes = <<255, 0, 0, 0, 0, 1, 0, 0>>
    /\ rlength = 65536

\* C14: in nonblock mode, after writes that the transport cut short with
\* ErrTemporarilyUnavailable and the calls that resume them, the bytes the
\* transport has taken are, frame after frame, the header and then the payload,
\* each byte once
C14_WriteResumes == (fnonblock /\ wshort > 0) => ProperStream

\* C13: in nonblock mode a read that follows a read which returned
\* ErrTemporarilyUnavailable, with the same buffer, and returns nil, returns
\* the whole payload of the frame with its full length
C13_ReadResumes ==
    (fnonblock /\ ProperStream) =>
        \A j \in 2..Len(rgot) :
            ( /\ \A i \in 1..j : rgot[i].err \in {"nil", "unavailable"}
              /\ rgot[j - 1].err = "unavailable"
              /\ rgot[j].err = "nil" )
            => rgot[j] = ExpectedRead(NilReads(j))

InRead == {t \in Threads : tpc[t] = "rbody"}
InWrite == {t \in Threads : tpc[t] = "wbody"}

\* C7: on a framer that has both an underlying reader and an underlying
\* writer, never are two read calls both past read entry, and never are two
\* write calls both past write entry.
C7_OneReaderOneWriter ==
    (mrdSet /\ mwrSet) => Cardinality(InRead) <= 1 /\ Cardinality(InWrite) <= 1

\* C8: close sets the closed bit only at a moment when neither the reading
\* bit nor the writing bit is held.
C8_CloseOnlyWhenFree ==
    [][(~HasBit(mstatus, messageStatusClosed) /\ HasBit(mstatus', messageStatusClosed))
         => (~HasBit(mstatus, messageStatusRead) /\ ~HasBit(mstatus, messageStatusWrite))]_vars

\* ----------------------------------------------------------- context: claims
\* the attachments of kind k, and of type T if kind is "ud", made after
\* position from
AttachedAfter(from, k, T) ==
    {i \in (from + 1)..Len(attached) : attached[i].kind = k /\ attached[i].type = T}

SetMax(S) == CHOOSE x \in S : \A y \in S : y <= x

\* the last position of attached that is no user-payload attachment
LastOther == LET S == {i \in 1..Len(attached) : attached[i].kind # "ud"}
             IN  IF S = {} THEN 0 ELSE SetMax(S)

\* C21: after a sequence of user-payload attachments to a context, the lookup
\* of every type T that was attached returns the value attached last for T
C21_LatestPerType ==
    \A T \in CtxTypes :
        AttachedAfter(LastOther, "ud", T) # {}
        => ContextUserdata(chain, T) = attached[SetMax(AttachedAfter(LastOther, "ud", T))].val

\* both types have been attached, one of them twice, the other in between
C21_Witness ==
    /\ LastOther = 0
    /\ Len(attached) >= 3
    /\ attached[Len(attached)].type = attached[Len(attached) - 2].type
    /\ attached[Len(attached)].type # attached[Len(attached) - 1].type
    /\ attached[Len(attached)].val # attached[Len(attached) - 2].val

\* the context was built from attachments of user payloads and fds only
OnlyAttachments == \A i \in 1..Len(attached) : attached[i].kind # "std"

\* C22: from the context a ring operation stores, the caller's context with
\* the fd attached on top, both the fd and the user payload attached before
\* the submission are recovered.
C22_StoredContext ==
    (/\ OnlyAttachments
     /\ Len(attached) >= 2
     /\ attached[Len(attached)].kind = "fd"
     /\ attached[Len(attached) - 1].kind = "ud")
    => /\ contextFD(chain) = attached[Len(attached)].val
       /\ ContextUserdata(chain, attached[Len(attached) - 1].type)
            = attached[Len(attached) - 1].val

\* C23: the fd lookup returns the fd attached last, also after user payloads
\* were attached on top of it, and -1 only when no fd was attached.
C23_LatestFD ==
    OnlyAttachments
    => contextFD(chain) =
         IF AttachedAfter(0, "fd", "fd") = {} THEN -1
         ELSE attached[SetMax(AttachedAfter(0, "fd", "fd"))].val

\* ------------------------------------------------------------- ring: claims
\* the threads between acquiring and releasing the submission lock
InSubmit == {s \in Submitters : spc[s] \in {"load", "store2", "storeSqe", "storeTail", "unlock", "fail"}}

\* the threads that have stored the new tail and have not returned yet
Publishing == {s \in Submitters : spc[s] \in {"storeSqe", "unlock"}}

CountOf(q, r) == Cardinality({i \in 1..Len(q) : q[i] = r})

Succeeded == SumSeq([s \in Submitters |-> CountOf(sres[s], "nil")], UThreads)

\* C24: at most one thread is between acquiring and releasing the submission
\* lock, so no two submits fill one slot or publish one tail value, and the SQ
\* tail has advanced by one, modulo the ring size, for every successful submit.
C24_SubmitExclusive ==
    /\ Cardinality(InSubmit) <= 1
    /\ sqLock <=> InSubmit # {}
    /\ \A s \in Submitters : spc[s] \in {"store2", "storeTail", "fail"} => sqt[s] = sqTail
    /\ sqTail = (Succeeded + Cardinality(Publishing)) % URingEntries

\* one thread holds the lock after a submit has succeeded, another spins
C24_Witness ==
    \E s1 \in Submitters, s2 \in Submitters :
        /\ spc[s1] = "store2"
        /\ spc[s2] = "lock"
        /\ Succeeded >= 1

\* C25: submit fills the SQE before it publishes the new tail and never
\* writes a published slot: the SQEs the kernel takes are the submitted
\* operations, each one once.
C25_KernelTakesFilled ==
    \A i \in 1..Len(kseen) :
        /\ kseen[i] # 0
        /\ \A j \in 1..Len(kseen) : i # j => kseen[i] # kseen[j]

\* the completions the successful waits have returned, as they were when claimed
Claimed(w) == [i \in 1..Len(wgot[w]) |-> wgot[w][i].cqe]

ReturnedCount == SumSeq([w \in Waiters |-> Len(wgot[w])], UThreads)

\* C26: with several threads in wait, every completion is returned by one
\* successful wait only, none is skipped, and the CQ head has advanced by one,
\* modulo the ring size, for every returned completion.
C26_EachCompletionOnce ==
    /\ \A w1 \in Waiters, w2 \in Waiters :
         \A i \in 1..Len(wgot[w1]), j \in 1..Len(wgot[w2]) :
             (w1 # w2 \/ i # j) => wgot[w1][i].cqe # wgot[w2][j].cqe
    /\ UNION {{wgot[w][i].cqe : i \in 1..Len(wgot[w])} : w \in Waiters} = 1..ReturnedCount
    /\ cqHead = ReturnedCount % URingEntries

\* C27: what the caller reads from the entry wait returned is the completion
\* that was in the head slot when wait claimed it.
C27_EntryUnaltered ==
    \A w \in Waiters :
        \A i \in 1..Len(wread[w]) : wread[w][i] = wgot[w][i].cqe

IsPowerOfTwo(x) == \E e \in 0..30 : x = 2 ^ e

\* C28: registerBuffers does not answer invalid-parameter when n and size are
\* both powers of two, and answers invalid-parameter when size is no power
\* of two.
C28_RegisterPowersOfTwo ==
    bret # "" =>
        /\ (IsPowerOfTwo(breq.n) /\ IsPowerOfTwo(breq.size)) => bret # "ErrInvalidParam"
        /\ ~IsPowerOfTwo(breq.size) => bret = "ErrInvalidParam"

\* ------------------------------------------------------- spin wait: claims
\* at least n calls of Once or OnceWithLevel were made since creation or the
\* last Reset: their number is sw.i plus 2^32 for every wrap of sw.i
CallsAtLeast(n) == swwraps > 0 \/ GeU32(swi, n)

\* C29: with a limit L > 0, Closed() is false after fewer than L calls and
\* true after L or more calls; with limit 0 it is never true.
C29_ClosedAfterLimit ==
    IF swlimit > 0 THEN Closed <=> CallsAtLeast(swlimit) ELSE ~Closed

\* C30: at a fixed level k the gap between consecutive yielding calls never
\* grows, every call from the (4 * 4^k)-th on yields, and at level 0 every
\* call yields.
C30_YieldsMoreOften ==
    swfixed =>
        /\ swprevgap > 0 => swgap <= swprevgap
        /\ swgap > 0 => swsince < swgap
        /\ (CallsAtLeast(4 * (4 ^ swlevel)) /\ swsteps > 0) => swyielded
        /\ (swlevel = 0 /\ swsteps > 0) => swyielded

\* the context as it was returned by the k-th attachment
RECURSIVE ChainAfter(_)
ChainAfter(k) ==
    IF k = 0 THEN <<>>
    ELSE LET a == attached[k]
             c == ChainAfter(k - 1)
         IN  IF a.kind = "ud" THEN ContextWithUserdata(c, a.type, a.val)
             ELSE IF a.kind = "fd" THEN contextWithFD(c, a.val)
             ELSE Append(c, a)

\* what a context value obtained from the k-th attachment refers to now: the
\* wrapper it points to and the wrappers inside of it
HeldContext(k) == SubSeq(chain, 1, Len(ChainAfter(k)))

\* C37: a context value obtained earlier returns, for every type, the value it
\* returned when it was obtained, whatever was attached to it afterwards.
C37_ParentUnchanged ==
    \A k \in 0..Len(attached) : \A T \in CtxTypes :
        ContextUserdata(HeldContext(k), T) = ContextUserdata(ChainAfter(k), T)

\* --------------------------------------------- AlignedMemBlocks (buffers.go)
\* Addresses and lengths are counted in units of the alignment the Go heap
\* gives an allocation of (n+1) pages; the page size of the machine,
\* os.Getpagesize(), is 2^PageOrder of these units.
PageOrder == 1

MaxBlocks == 4

MaxPtrPages == 4

PageSize == 2 ^ PageOrder

\* len(p) for p := make([]byte, size*(n+1))
BackingLen(n) == PageSize * (n + 1)

\* off := ptr - (ptr & ^(uintptr(size) - 1))
BlockOff(ptr) == ptr - (ptr - BitAnd(ptr, PageSize - 1))

\* the index i*size-int(off) of the first byte of blocks[i] in p
BlockIndex(i, ptr) == i * PageSize - BlockOff(ptr)

\* if n < 1 { panic("bad block num") }
AlignedMemBlocksCall ==
    /\ apc = "call"
    /\ apc' = IF an < 1 THEN "panic" ELSE "loop"
    /\ UNCHANGED <<an, aptr, ai, ablocks>>
    /\ UNCHANGED notavars

\* blocks[i] = unsafe.Slice(&p[i*size-int(off)], size): the index expression
\* p[...] panics when the index is outside 0 .. len(p)-1
AlignedMemBlocksBlock_NoIndexCheck ==
    /\ apc = "loop" /\ ai < an
    /\ ablocks' = Append(ablocks, [addr |-> aptr + BlockIndex(ai, aptr), len |-> PageSize])
    /\ ai' = ai + 1
    /\ UNCHANGED <<apc, an, aptr>>
    /\ UNCHANGED notavars
AlignedMemBlocksBlock ==
    /\ apc = "loop" /\ ai < an
    /\ LET idx == BlockIndex(ai, aptr)
       IN  IF idx < 0 \/ idx >= BackingLen(an)
           THEN /\ apc' = "panic"
                /\ UNCHANGED <<ai, ablocks>>
           ELSE /\ ablocks' = Append(ablocks, [addr |-> aptr + idx, len |-> PageSize])
                /\ ai' = ai + 1
                /\ apc' = apc
    /\ UNCHANGED <<an, aptr>>
    /\ UNCHANGED notavars

AlignedMemBlocksReturn ==
    /\ apc = "loop" /\ ai = an
    /\ apc' = "done"
    /\ UNCHANGED <<an, aptr, ai, ablocks>>
    /\ UNCHANGED notavars

InitAlignedMemBlocks ==
    /\ InitAlloc({"call"}, 0..MaxBlocks, PageSize..(PageSize * (MaxPtrPages + 1) - 1))
    /\ ParkedQueue /\ ParkedStack /\ ParkedFramer /\ ParkedRest

NextAlignedMemBlocks ==
    \/ AlignedMemBlocksCall
    \/ AlignedMemBlocksBlock
    \/ AlignedMemBlocksReturn

SpecAlignedMemBlocks == InitAlignedMemBlocks /\ [][NextAlignedMemBlocks]_vars

\* C33: a call with n >= 1 does not panic, whatever the address of the backing
\* allocation, and returns n blocks, each one page long and starting at a
\* multiple of the page size.
C33_PageAlignedBlocks ==
    (apc \in {"loop", "done", "panic"} /\ an >= 1) =>
        /\ apc # "panic"
        /\ apc = "done" =>
              /\ Len(ablocks) = an
              /\ \A i \in 1..Len(ablocks) :
                    ablocks[i].len = PageSize /\ ablocks[i].addr % PageSize = 0

\* C38: every block handed out lies inside the backing allocation, the
\* BackingLen(n) bytes from ptr on, and no two blocks share a byte.
C38_BlocksInsideDisjoint ==
    /\ \A i \in 1..Len(ablocks) :
          /\ ablocks[i].addr >= aptr
          /\ ablocks[i].addr + ablocks[i].len <= aptr + BackingLen(an)
    /\ \A i \in 1..Len(ablocks) : \A j \in 1..Len(ablocks) :
          i < j => \/ ablocks[i].addr + ablocks[i].len <= ablocks[j].addr
                   \/ ablocks[j].addr + ablocks[j].len <= ablocks[i].addr

C38_Witness == apc = "done" /\ an >= 2 /\ Len(ablocks) = an

\* ------------------------------------------- ring queue: claims, continued
\* C34: with concurrent consumers no produced item is returned by two Consume
\* calls, whether of one consumer or of two, and whatever was returned had
\* been stored by a Produce.
C34_EachItemOnce ==
    /\ \A c \in Consumers : \A d \in Consumers :
         \A i \in 1..Len(recv[c]) : \A j \in 1..Len(recv[d]) :
             (c # d \/ i # j) => recv[c][i] # recv[d][j]
    /\ \A c \in Consumers : \A i \in 1..Len(recv[c]) :
         recv[c][i][1] \in Producers /\ recv[c][i][2] \in 1..QItems

\* the producer p has set the writing bit and not yet cleared it
HoldsWriting(p) == ppc[p] \in {"store", "release"}

\* C35: no step leaves the tail word with writing and closed both set, and a
\* step that changes the tail word while writing is set is a step of the
\* producer that set the bit, and of no other thread.
C35_WritingExclusive ==
    [][ /\ ~(tail'.w /\ tail'.c)
        /\ (tail.w /\ tail' # tail) =>
              \E p \in Producers :
                  /\ HoldsWriting(p)
                  /\ ppc'[p] # ppc[p]
                  /\ \A q \in Producers \ {p} : ~HoldsWriting(q) /\ ppc'[q] = ppc[q] ]_vars

\* C35 witness: one producer holds the writing bit while Close, called by
\* another thread, stands before its CAS with a tail word loaded earlier
C35_Witness ==
    /\ tail.w
    /\ \E p \in Producers : \E q \in Producers :
          p # q /\ HoldsWriting(p) /\ ppc[q] = "closeCas"

\* --------------------- ringQueueConcurrentConsume: Close during a Produce
\* Close, called by another goroutine while the producer is inside Produce:
\* rq.closed = true
SPMCCloseDuringProduce ==
    /\ ppc[1] # "idle"
    /\ ~tail.c
    /\ tail' = [tail EXCEPT !.c = TRUE]
    /\ closeDone' = TRUE
    /\ UNCHANGED <<qcap, qnonblock, ring, head, ppc, ptail, pseq, sawClosedPipe, pafter,
                   cpc, chead, citem, recv, sawEOF>>
    /\ UNCHANGED notqvars

SPMCProducerStep ==
    \/ SPMCProduceCheckClosed(1)
    \/ SPMCProduceLoadHead(1)
    \/ SPMCProduceStoreItem(1)
    \/ SPMCProduceStoreTail(1)

NextSPMCBlocked ==
    \/ SPMCProducerStep
    \/ SPMCClose(1)
    \/ SPMCCloseDuringProduce
    \/ \E c \in Consumers : SPMCConsumeLoadHead(c)
    \/ \E c \in Consumers : SPMCConsumeReadTail(c)
    \/ \E c \in Consumers : SPMCConsumeReadItem(c)
    \/ \E c \in Consumers : SPMCConsumeCasHead(c)

\* The producer goroutine keeps running; the consumers are under no
\* obligation to call Consume.
SpecSPMCBlocked ==
    InitSPMC /\ [][NextSPMCBlocked]_vars /\ WF_vars(SPMCProducerStep)

\* C36: in blocking mode a Produce that waits on a full ring when the queue
\* is closed comes back (with closed-pipe, or having stored its item if a
\* consumer freed a slot after all); it does not wait for ever.
C36_BlockedProduceReturns ==
    (tail.c /\ ~qnonblock /\ ppc[1] = "load") ~> (ppc[1] = "idle")

\* C32: the queue never holds more than qcap items, qcap being the user
\* capacity rounded up to the next 2^n - 1: with no Consume under way, the
\* items whose Produce returned nil and which no Consume has returned yet
\* number at most qcap.
C32_AtMostCapacity ==
    /\ qcap = RoundCapacity(QUserCap)
    /\ cpc[1] = "idle" => Produced - Len(recv[1]) <= qcap

\* ------------------------ the four ring queues, one call at a time
\* (testRingQueueNonblocking: every call returns before the next one starts)
QKinds == {"SPSC", "MPSC", "SPMC", "MPMC"}

\* NewRingQueue: the queue built for ConcurrentProduce and ConcurrentConsume
InitAnyQueue ==
    /\ qkind \in QKinds
    /\ InitQueue(IF qkind \in {"SPMC", "MPMC"} THEN QConsumers ELSE 1)
    /\ ParkedStack /\ ParkedAlloc /\ ParkedFramer /\ ParkedRest

\* the calls under way before and after a step
CallsUnderWay ==
    {<<"p", p>> : p \in {q \in Producers : ppc[q] # "idle"}}
        \cup {<<"c", c>> : c \in {d \in Consumers : cpc[d] \notin {"idle", "off"}}}

CallsUnderWayNext ==
    {<<"p", p>> : p \in {q \in Producers : ppc'[q] # "idle"}}
        \cup {<<"c", c>> : c \in {d \in Consumers : cpc'[d] \notin {"idle", "off"}}}

\* a step of the only call under way, or the first step of a call made when
\* no call is under way; the calls are made by one goroutine
OneCallAtATime ==
    /\ Cardinality(CallsUnderWay \cup CallsUnderWayNext) <= 1
    /\ CallsUnderWay # {} => (ppc' # ppc \/ cpc' # cpc)
    /\ CallsUnderWayNext \subseteq {<<"p", 1>>, <<"c", 1>>}

NextSeriesSPSC == qkind = "SPSC" /\ NextSPSC /\ OneCallAtATime

NextSeriesMPSC == qkind = "MPSC" /\ NextMPSC /\ OneCallAtATime

NextSeriesSPMC == qkind = "SPMC" /\ NextSPMC /\ OneCallAtATime

NextSeriesMPMC == qkind = "MPMC" /\ NextMPMC /\ OneCallAtATime

NextQueueSeries ==
    \/ NextSeriesSPSC
    \/ NextSeriesMPSC
    \/ NextSeriesSPMC
    \/ NextSeriesMPMC

SpecQueueSeries == InitAnyQueue /\ [][NextQueueSeries]_vars

\* number of items returned by Consume calls
Received == SumSeq([c \in Consumers |-> Len(recv[c])], QConsumers)

\* items produced and not yet consumed
Held == Produced - Received

InProduce(p) == ppc[p] \notin {"idle", "close", "closeCas"}

InConsume(c) == cpc[c] \notin {"idle", "off"}

\* head, tail, the closed flag and the slots as the completed calls left them
AsLeft ==
    /\ tail = Word(FALSE, closeDone, Produced % (qcap + 1))
    /\ head = Received % (qcap + 1)
    /\ \A i \in 0..(Held - 1) :
          ring[(Received + i) % (qcap + 1)] \in {<<p, n>> : p \in Producers, n \in 1..QItems}

\* C31: a nonblocking queue, open, one call at a time, any of the four
\* variants. A Produce made when the queue holds qcap items, and a Consume
\* made when it holds none, write nothing (head, tail, the closed flag and
\* the slots stay as the completed calls left them, up to and including the
\* step that returns) and return temporarily-unavailable: no item produced
\* or consumed, neither closed-pipe nor end-of-stream.
C31_NonblockingUnavailable ==
    [][ (qnonblock /\ ~closeDone) =>
          /\ \A p \in Producers : (InProduce(p) /\ Held = qcap) =>
                /\ AsLeft
                /\ UNCHANGED <<head, tail, ring, closeDone>>
                /\ ppc'[p] = "idle" =>
                       pseq' = pseq /\ ~sawClosedPipe'[p]
          /\ \A c \in Consumers : (InConsume(c) /\ Held = 0) =>
                /\ AsLeft
                /\ UNCHANGED <<head, tail, ring, closeDone>>
                /\ cpc'[c] = "idle" =>
                       recv' = recv /\ ~sawEOF'[c] ]_vars

\* C31 witness: a nonblocking Produce on the full open MPMC queue has loaded
\* the tail and stands before its full test
C31_Witness ==
    /\ qnonblock /\ ~closeDone /\ qkind = "MPMC"
    /\ Held = qcap
    /\ \E p \in Producers : ppc[p] = "loadHead"

C40_EofAtBoundary ==
    (rpc = "idle" /\ rgot # <<>> /\ reofAt = 0) =>
        /\ rgot[Len(rgot)].err = "eof"
        /\ rgot[Len(rgot)].n = 0

====
